---- MODULE Spec2Model ----
(***************************************************************************)
(* A model of the safesec key-file server: the RPC message checks, the     *)
(* per-connection session state machine (RpcState), the MessagePack frame  *)
(* decoder and the per-connection pipeline built by serve().               *)
(***************************************************************************)
EXTENDS Integers, Sequences, FiniteSets, TLC

\* ------------------------------------------------------------------------
\* Bounds of the model
\* ------------------------------------------------------------------------

\* Longest argument array a client request carries.
MaxArgs == 3

\* Number of distinct byte strings used as keys and as files.
NumBlobs == 2

\* Most frames a client sends on one connection.
MaxFrames == 3

\* The number of connections the listener is offered.
MaxConns == 2

\* ------------------------------------------------------------------------
\* rmpv::Value
\* ------------------------------------------------------------------------

\* Unsigned integers are kept as two limbs, value = hi * Limb + lo, so that
\* values above u32::MAX can be told from values that fit.
Limb == 65536

None == [t |-> "none"]

\* The variants of Value; each names its payload differently.
Nil == [t |-> "nil"]

Bool(b) == [t |-> "bool", b |-> b]

IntV(hi, lo) == [t |-> "int", hi |-> hi, lo |-> lo]

U(n) == IntV(0, n)

Bin(b) == [t |-> "bin", bytes |-> b]

Arr(s) == [t |-> "array", v |-> s]

U8Max == [hi |-> 0, lo |-> 255]

U32Max == [hi |-> Limb - 1, lo |-> Limb - 1]

\* Value::as_u64: Some for an unsigned integer, None otherwise.
as_u64(val) == IF val.t = "int" THEN [hi |-> val.hi, lo |-> val.lo] ELSE None

is_bin(val) == val.t = "bin"

is_array(val) == val.t = "array"

\* ------------------------------------------------------------------------
\* CodeConvert enums (number -> variant)
\* ------------------------------------------------------------------------

MessageType == (0 :> "Request") @@ (1 :> "Response") @@ (2 :> "Notification")

SessionType == (0 :> "Boot") @@ (1 :> "Auth")

BootMessage == (0 :> "KeyExists") @@ (1 :> "GetKeyFile")

BootError == (0 :> "Nil") @@ (1 :> "KeyFileNotFound")

BootNotice == (2 :> "Done")

AuthMessage == (0 :> "GetKeyFile") @@ (1 :> "CreateKeyFile")
               @@ (2 :> "ChangeKeyFile") @@ (3 :> "ChangeKey")
               @@ (4 :> "ReplaceKeyFile") @@ (5 :> "DeleteKeyFile")
               @@ (6 :> "KeyExists")

AuthError == (0 :> "Nil") @@ (1 :> "KeyFileNotFound") @@ (2 :> "KeyFileExists")
             @@ (3 :> "DatabaseError")

AuthNotice == (2 :> "Done")

\* from_number: the variant whose discriminant is n, or the token
\* "InvalidValue" for Err(_); from_number_err tells the error itself.
from_number(E, n) == IF n \in DOMAIN E THEN E[n] ELSE "InvalidValue"

RECURSIVE to_string(_)

\* u8::to_string: the decimal digits of num, most significant first.
to_string(num) ==
    IF num < 10 THEN <<num>> ELSE Append(to_string(num \div 10), num % 10)

\* The error of from_number with the number left out of its description.
from_number_err_NoNumber(name, num) ==
    IF name = "MessageType" THEN [kind |-> "InvalidCode", description |-> <<>>]
    ELSE [kind |-> "InvalidValue", description |-> <<>>]

\* The error from_number returns for a number that is no discriminant:
\* CodeError::InvalidCode from the hand-written MessageType impl, and
\* Error::new(GeneralError::InvalidValue, num.to_string()) from the derive.
from_number_err(name, num) ==
    IF name = "MessageType" THEN [kind |-> "InvalidCode", description |-> <<>>]
    ELSE [kind |-> "InvalidValue", description |-> to_string(num)]

\* to_number that answers the position of the variant in the declaration.
to_number_Ordinal(E, name) ==
    Cardinality({m \in DOMAIN E : m < (CHOOSE n \in DOMAIN E : E[n] = name)})

\* to_number: `self.clone() as u8`, the discriminant of the variant.
to_number(E, name) == CHOOSE n \in DOMAIN E : E[n] = name

\* ------------------------------------------------------------------------
\* Message, RequestMessage, ResponseMessage, NotificationMessage
\* ------------------------------------------------------------------------

\* RpcMessage::check_int: Ok iff the value is Some(v) with v <= max_value.
check_int(val, max) ==
    /\ val # None
    /\ ~ (val.hi > max.hi \/ (val.hi = max.hi /\ val.lo > max.lo))

\* Message::from: "Ok" or the MessageError it returns.
MessageFrom(val) ==
    IF ~ is_array(val) THEN "InvalidType"
    ELSE IF Len(val.v) < 3 THEN "InvalidType"
    ELSE IF Len(val.v) > 4 THEN "InvalidType"
    ELSE IF ~ check_int(as_u64(val.v[1]), U8Max) THEN "InvalidMessageType"
    ELSE "Ok"

\* RpcMessage::message_type that reads every unknown code as Notification.
message_type_Lenient(m) ==
    LET msgtype == as_u64(m.v[1]).lo % 256
    IN  IF from_number(MessageType, msgtype) = "InvalidValue" THEN "Notification"
        ELSE from_number(MessageType, msgtype)

\* RpcMessage::message_type on a Message: the variant, or "Err".
message_type(m) ==
    LET msgtype == as_u64(m.v[1]).lo % 256
    IN  IF from_number(MessageType, msgtype) = "InvalidValue" THEN "Err"
        ELSE from_number(MessageType, msgtype)

\* check_message_code of the typed messages: the code fits u8 and maps to E.
check_message_code(E, msgcode) ==
    /\ check_int(as_u64(msgcode), U8Max)
    /\ from_number(E, as_u64(msgcode).lo) # "InvalidValue"

\* RequestMessage<C>::from: "Ok" or the RpcError kind of the first failed check.
RequestFrom(E, m) ==
    IF Len(m.v) # 4 THEN "InvalidArrayLength"
    ELSE IF as_u64(m.v[1]).lo % 256 # to_number(MessageType, "Request")
        THEN "InvalidMessageType"
    ELSE IF ~ check_int(as_u64(m.v[2]), U32Max) THEN "InvalidIDType"
    ELSE IF ~ check_message_code(E, m.v[3]) THEN "InvalidRequest"
    ELSE IF ~ is_array(m.v[4]) THEN "InvalidRequestArgs"
    ELSE "Ok"

\* NotificationMessage<C>::from without the lookup of the code in the enum C.
NotificationFrom_AnyCode(E, m) ==
    IF Len(m.v) # 3 THEN "InvalidArrayLength"
    ELSE IF as_u64(m.v[1]).lo % 256 # to_number(MessageType, "Notification")
        THEN "InvalidMessageType"
    ELSE IF ~ check_int(as_u64(m.v[2]), U8Max) THEN "InvalidNotification"
    ELSE IF ~ is_array(m.v[3]) THEN "InvalidNotificationArgs"
    ELSE "Ok"

\* NotificationMessage<C>::from: "Ok" or the RpcError kind.
NotificationFrom(E, m) ==
    IF Len(m.v) # 3 THEN "InvalidArrayLength"
    ELSE IF as_u64(m.v[1]).lo % 256 # to_number(MessageType, "Notification")
        THEN "InvalidMessageType"
    ELSE IF ~ check_message_code(E, m.v[2]) THEN "InvalidNotification"
    ELSE IF ~ is_array(m.v[3]) THEN "InvalidNotificationArgs"
    ELSE "Ok"

\* ResponseMessage<E>::new(id, error, result) as a Value.
ResponseNew(E, msgid, err, result) ==
    Arr(<<U(to_number(MessageType, "Response")), msgid,
          U(to_number(E, err)), result>>)

\* RpcRequest accessors; message_id casts the checked id to u32.
message_id(req) == IntV(as_u64(req.v[2]).hi % Limb, as_u64(req.v[2]).lo)

message_code(E, req) == from_number(E, as_u64(req.v[3]).lo)

message_args(req) == req.v[4].v

\* ------------------------------------------------------------------------
\* KeyFileStore: the store is a set of <<key, file>> bindings, one per key.
\* fault names the store call that hits an engine error during a request.
\* ------------------------------------------------------------------------

Bound(db, k) == \E p \in db : p[1] = k

FileOf(db, k) == (CHOOSE p \in db : p[1] = k)[2]

\* KeyFile::exists that answers true for every key.
StoreExists_Always(db, k, fault) == TRUE

\* KeyFile::exists: true iff dbget succeeds; any engine error reads as false.
StoreExists(db, k, fault) == fault # "exists" /\ Bound(db, k)

\* KeyFile::get
StoreGet(db, k, fault) ==
    IF fault = "get" THEN [res |-> "Other", v |-> k]
    ELSE IF ~ Bound(db, k) THEN [res |-> "Key", v |-> k]
    ELSE [res |-> "Ok", v |-> FileOf(db, k)]

\* KeyFile::set that succeeds whatever the engine does.
StoreSet_NeverFails(db, k, file, fault) ==
    [res |-> "Ok", db |-> {p \in db : p[1] # k} \cup {<<k, file>>}]

\* KeyFile::set
StoreSet(db, k, file, fault) ==
    IF fault = "set" THEN [res |-> "Other", db |-> db]
    ELSE [res |-> "Ok", db |-> {p \in db : p[1] # k} \cup {<<k, file>>}]

\* KeyFileStore::delete
StoreDelete(db, k, fault) ==
    IF fault = "delete" THEN [res |-> "Other", v |-> k, db |-> db]
    ELSE IF ~ Bound(db, k) THEN [res |-> "Key", v |-> k, db |-> db]
    ELSE [res |-> "Ok", v |-> k, db |-> {p \in db : p[1] # k}]

\* ------------------------------------------------------------------------
\* Session states: results of SessionState::change and of the request
\* handlers.  kind is "Ok", "Err" (a ProtocolError) or "Panic".
\* ------------------------------------------------------------------------

OkResp(resp, db) == [kind |-> "Ok", state |-> "", resp |-> resp, err |-> "", db |-> db]

OkState(st, resp, db) == [kind |-> "Ok", state |-> st, resp |-> resp, err |-> "", db |-> db]

ErrRes(e, db) == [kind |-> "Err", state |-> "", resp |-> None, err |-> e, db |-> db]

PanicRes(db) == [kind |-> "Panic", state |-> "", resp |-> None, err |-> "", db |-> db]

\* Start::change with the two session kinds exchanged.
StartChange_Swapped(m, db) ==
    IF NotificationFrom(SessionType, m) # "Ok" THEN ErrRes("InvalidNotification", db)
    ELSE IF from_number(SessionType, as_u64(m.v[2]).lo) = "Boot"
        THEN OkState("ProcessAuthMessage", None, db)
    ELSE OkState("ProcessBootMessage", None, db)

\* Start::change
StartChange(m, db) ==
    IF NotificationFrom(SessionType, m) # "Ok" THEN ErrRes("InvalidNotification", db)
    ELSE IF from_number(SessionType, as_u64(m.v[2]).lo) = "Boot"
        THEN OkState("ProcessBootMessage", None, db)
    ELSE OkState("ProcessAuthMessage", None, db)

\* ProcessBootRequest::_check_message without the check of the argument count.
BootCheckMessage_NoCount(req) ==
    IF Len(message_args(req)) = 0 THEN "InvalidRequestArgs"
    ELSE IF ~ is_bin(message_args(req)[1]) THEN "InvalidRequest"
    ELSE "Ok"

\* ProcessBootRequest::_check_message
BootCheckMessage(req) ==
    IF Len(message_args(req)) # 1 THEN "InvalidRequestArgs"
    ELSE IF ~ is_bin(message_args(req)[1]) THEN "InvalidRequest"
    ELSE "Ok"

\* ProcessBootRequest::req_key_exists that binds a key it finds unbound.
BootReqKeyExists_Binds(req, db, fault) ==
    IF BootCheckMessage(req) # "Ok" THEN ErrRes(BootCheckMessage(req), db)
    ELSE LET key == message_args(req)[1].bytes
         IN  OkResp(ResponseNew(BootError, message_id(req), "Nil",
                                Bool(StoreExists(db, key, fault))),
                    IF Bound(db, key) THEN db ELSE db \cup {<<key, key>>})

\* ProcessBootRequest::req_key_exists
BootReqKeyExists(req, db, fault) ==
    IF BootCheckMessage(req) # "Ok" THEN ErrRes(BootCheckMessage(req), db)
    ELSE LET key == message_args(req)[1].bytes
         IN  OkResp(ResponseNew(BootError, message_id(req), "Nil",
                                Bool(StoreExists(db, key, fault))), db)

\* ProcessBootRequest::req_get_keyfile that reports an engine error as a miss.
BootReqGetKeyfile_OtherAsMiss(req, db, fault) ==
    IF BootCheckMessage(req) # "Ok" THEN ErrRes(BootCheckMessage(req), db)
    ELSE LET key == message_args(req)[1].bytes
             keyfile == StoreGet(db, key, fault)
         IN  IF keyfile.res = "Ok"
             THEN OkResp(ResponseNew(BootError, message_id(req), "Nil",
                                     Bin(keyfile.v)), db)
             ELSE OkResp(ResponseNew(BootError, message_id(req),
                                     "KeyFileNotFound", Bin(keyfile.v)), db)

\* ProcessBootRequest::req_get_keyfile
BootReqGetKeyfile(req, db, fault) ==
    IF BootCheckMessage(req) # "Ok" THEN ErrRes(BootCheckMessage(req), db)
    ELSE LET key == message_args(req)[1].bytes
             keyfile == StoreGet(db, key, fault)
         IN  CASE keyfile.res = "Ok" ->
                    OkResp(ResponseNew(BootError, message_id(req), "Nil",
                                       Bin(keyfile.v)), db)
               [] keyfile.res = "Key" ->
                    OkResp(ResponseNew(BootError, message_id(req),
                                       "KeyFileNotFound", Bin(keyfile.v)), db)
               [] keyfile.res = "Other" -> PanicRes(db)

\* ProcessBootRequest::run
BootRequestRun(m, db, fault) ==
    IF RequestFrom(BootMessage, m) # "Ok" THEN PanicRes(db)
    ELSE IF message_code(BootMessage, m) = "KeyExists"
        THEN BootReqKeyExists(m, db, fault)
    ELSE BootReqGetKeyfile(m, db, fault)

\* The Request arm of change: a response keeps the session, an error or a
\* panic of the handler is passed on.
KeepSession(session, response) ==
    IF response.kind = "Ok"
    THEN OkState(session, response.resp, response.db)
    ELSE response

\* ProcessBootMessage::change that answers Done and stays in the session.
BootChange_DoneStays(m, db, fault) ==
    CASE message_type(m) = "Err" -> PanicRes(db)
      [] message_type(m) = "Request" ->
            KeepSession("ProcessBootMessage", BootRequestRun(m, db, fault))
      [] message_type(m) = "Notification" ->
            IF NotificationFrom(BootNotice, m) # "Ok"
            THEN ErrRes("InvalidNotification", db)
            ELSE OkState("ProcessBootMessage",
                         ResponseNew(BootError, U(0), "Nil", Nil), db)
      [] message_type(m) = "Response" -> ErrRes("UnexpectedMessage", db)

\* ProcessBootMessage::change
BootChange(m, db, fault) ==
    CASE message_type(m) = "Err" -> PanicRes(db)
      [] message_type(m) = "Request" ->
            KeepSession("ProcessBootMessage", BootRequestRun(m, db, fault))
      [] message_type(m) = "Notification" ->
            IF NotificationFrom(BootNotice, m) # "Ok"
            THEN ErrRes("InvalidNotification", db)
            ELSE OkState("BootEnd", None, db)
      [] message_type(m) = "Response" -> ErrRes("UnexpectedMessage", db)

\* A _check_message that looks at the arguments before it counts them.
AuthCheckMessage_TypesFirst(req, numargs) ==
    IF \E i \in 1..Len(message_args(req)) : ~ is_bin(message_args(req)[i])
        THEN "InvalidRequest"
    ELSE IF Len(message_args(req)) # numargs THEN "InvalidRequestArgs"
    ELSE "Ok"

\* ProcessAuthRequest::_check_message
AuthCheckMessage(req, numargs) ==
    IF Len(message_args(req)) # numargs THEN "InvalidRequestArgs"
    ELSE IF \E i \in 1..numargs : ~ is_bin(message_args(req)[i])
        THEN "InvalidRequest"
    ELSE "Ok"

\* AuthResponse::new(req.message_id(), code, val)
mkresponse(req, code, val) == ResponseNew(AuthError, message_id(req), code, val)

\* ProcessAuthRequest::req_key_exists
AuthReqKeyExists(req, db, fault) ==
    IF AuthCheckMessage(req, 1) # "Ok" THEN ErrRes(AuthCheckMessage(req, 1), db)
    ELSE LET key == message_args(req)[1].bytes
         IN  OkResp(mkresponse(req, "Nil", Bool(StoreExists(db, key, fault))), db)

\* ProcessAuthRequest::req_get_keyfile that answers a miss with error Nil.
AuthReqGetKeyfile_MissNil(req, db, fault) ==
    IF AuthCheckMessage(req, 1) # "Ok" THEN ErrRes(AuthCheckMessage(req, 1), db)
    ELSE LET key == message_args(req)[1].bytes
             keyfile == StoreGet(db, key, fault)
         IN  IF keyfile.res = "Other" THEN PanicRes(db)
             ELSE OkResp(mkresponse(req, "Nil", Bin(keyfile.v)), db)

\* ProcessAuthRequest::req_get_keyfile
AuthReqGetKeyfile(req, db, fault) ==
    IF AuthCheckMessage(req, 1) # "Ok" THEN ErrRes(AuthCheckMessage(req, 1), db)
    ELSE LET key == message_args(req)[1].bytes
             keyfile == StoreGet(db, key, fault)
         IN  CASE keyfile.res = "Ok" ->
                    OkResp(mkresponse(req, "Nil", Bin(keyfile.v)), db)
               [] keyfile.res = "Key" ->
                    OkResp(mkresponse(req, "KeyFileNotFound", Bin(keyfile.v)), db)
               [] keyfile.res = "Other" -> PanicRes(db)

\* ProcessAuthRequest::req_create_keyfile without the check that the key is new.
AuthReqCreateKeyfile_Overwrite(req, db, fault) ==
    IF AuthCheckMessage(req, 2) # "Ok" THEN ErrRes(AuthCheckMessage(req, 2), db)
    ELSE LET key == message_args(req)[1].bytes
             keyfile == message_args(req)[2].bytes
             set == StoreSet(db, key, keyfile, fault)
         IN  IF set.res = "Ok"
             THEN OkResp(mkresponse(req, "Nil", Bool(TRUE)), set.db)
             ELSE OkResp(mkresponse(req, "DatabaseError", Bool(FALSE)), set.db)

\* ProcessAuthRequest::req_create_keyfile
AuthReqCreateKeyfile(req, db, fault) ==
    IF AuthCheckMessage(req, 2) # "Ok" THEN ErrRes(AuthCheckMessage(req, 2), db)
    ELSE LET key == message_args(req)[1].bytes
             keyfile == message_args(req)[2].bytes
             set == StoreSet(db, key, keyfile, fault)
         IN  IF StoreExists(db, key, fault)
             THEN OkResp(mkresponse(req, "KeyFileExists", Bin(key)), db)
             ELSE IF set.res = "Ok"
             THEN OkResp(mkresponse(req, "Nil", Bool(TRUE)), set.db)
             ELSE OkResp(mkresponse(req, "DatabaseError", Bool(FALSE)), set.db)

\* ProcessAuthRequest::req_change_keyfile
AuthReqChangeKeyfile(req, db, fault) ==
    IF AuthCheckMessage(req, 2) # "Ok" THEN ErrRes(AuthCheckMessage(req, 2), db)
    ELSE LET key == message_args(req)[1].bytes
             new_keyfile == message_args(req)[2].bytes
             set == StoreSet(db, key, new_keyfile, fault)
         IN  IF ~ StoreExists(db, key, fault)
             THEN OkResp(mkresponse(req, "KeyFileNotFound", Bin(key)), db)
             ELSE IF set.res = "Ok"
             THEN OkResp(mkresponse(req, "Nil", Bool(TRUE)), set.db)
             ELSE OkResp(mkresponse(req, "DatabaseError", Bool(FALSE)), set.db)

\* ProcessAuthRequest::req_del_keyfile
AuthReqDelKeyfile(req, db, fault) ==
    IF AuthCheckMessage(req, 1) # "Ok" THEN ErrRes(AuthCheckMessage(req, 1), db)
    ELSE LET key == message_args(req)[1].bytes
             del == StoreDelete(db, key, fault)
         IN  IF ~ StoreExists(db, key, fault)
             THEN OkResp(mkresponse(req, "KeyFileNotFound", Bin(key)), db)
             ELSE CASE del.res = "Ok" ->
                         OkResp(mkresponse(req, "Nil", Bool(TRUE)), del.db)
                    [] del.res = "Other" ->
                         OkResp(mkresponse(req, "DatabaseError", Bool(FALSE)), del.db)
                    [] del.res = "Key" -> PanicRes(del.db)

\* ProcessAuthRequest::req_change_key that binds the new key and keeps the old.
AuthReqChangeKey_KeepsOld(req, db, fault) ==
    IF AuthCheckMessage(req, 2) # "Ok" THEN ErrRes(AuthCheckMessage(req, 2), db)
    ELSE LET oldkey == message_args(req)[1].bytes
             newkey == message_args(req)[2].bytes
             keyfile == StoreGet(db, oldkey, fault)
             set == StoreSet(db, newkey, keyfile.v, fault)
         IN  IF StoreExists(db, newkey, fault)
             THEN OkResp(mkresponse(req, "KeyFileExists", Bin(newkey)), db)
             ELSE IF keyfile.res = "Key"
             THEN OkResp(mkresponse(req, "KeyFileNotFound", Bin(keyfile.v)), db)
             ELSE IF keyfile.res = "Other"
             THEN OkResp(mkresponse(req, "DatabaseError", Bool(FALSE)), db)
             ELSE IF set.res = "Ok"
             THEN OkResp(mkresponse(req, "Nil", Bool(TRUE)), set.db)
             ELSE OkResp(mkresponse(req, "DatabaseError", Bool(FALSE)), set.db)

\* ProcessAuthRequest::req_change_key that looks up the old key before it
\* checks the new one.
AuthReqChangeKey_OldFirst(req, db, fault) ==
    IF AuthCheckMessage(req, 2) # "Ok" THEN ErrRes(AuthCheckMessage(req, 2), db)
    ELSE LET oldkey == message_args(req)[1].bytes
             newkey == message_args(req)[2].bytes
             keyfile == StoreGet(db, oldkey, fault)
             del == StoreDelete(db, oldkey, fault)
             set == StoreSet(del.db, newkey, keyfile.v, fault)
         IN  IF keyfile.res = "Key"
             THEN OkResp(mkresponse(req, "KeyFileNotFound", Bin(keyfile.v)), db)
             ELSE IF keyfile.res = "Other"
             THEN OkResp(mkresponse(req, "DatabaseError", Bool(FALSE)), db)
             ELSE IF StoreExists(db, newkey, fault)
             THEN OkResp(mkresponse(req, "KeyFileExists", Bin(newkey)), db)
             ELSE IF del.res = "Other"
             THEN OkResp(mkresponse(req, "DatabaseError", Bool(FALSE)), del.db)
             ELSE IF del.res = "Key" THEN PanicRes(del.db)
             ELSE IF set.res = "Ok"
             THEN OkResp(mkresponse(req, "Nil", Bool(TRUE)), set.db)
             ELSE OkResp(mkresponse(req, "DatabaseError", Bool(FALSE)), set.db)

\* ProcessAuthRequest::req_change_key
AuthReqChangeKey(req, db, fault) ==
    IF AuthCheckMessage(req, 2) # "Ok" THEN ErrRes(AuthCheckMessage(req, 2), db)
    ELSE LET oldkey == message_args(req)[1].bytes
             newkey == message_args(req)[2].bytes
             keyfile == StoreGet(db, oldkey, fault)
             del == StoreDelete(db, oldkey, fault)
             set == StoreSet(del.db, newkey, keyfile.v, fault)
         IN  IF StoreExists(db, newkey, fault)
             THEN OkResp(mkresponse(req, "KeyFileExists", Bin(newkey)), db)
             ELSE IF keyfile.res = "Key"
             THEN OkResp(mkresponse(req, "KeyFileNotFound", Bin(keyfile.v)), db)
             ELSE IF keyfile.res = "Other"
             THEN OkResp(mkresponse(req, "DatabaseError", Bool(FALSE)), db)
             ELSE IF del.res = "Other"
             THEN OkResp(mkresponse(req, "DatabaseError", Bool(FALSE)), del.db)
             ELSE IF del.res = "Key" THEN PanicRes(del.db)
             ELSE IF set.res = "Ok"
             THEN OkResp(mkresponse(req, "Nil", Bool(TRUE)), set.db)
             ELSE OkResp(mkresponse(req, "DatabaseError", Bool(FALSE)), set.db)

\* ProcessAuthRequest::req_replace_keyfile without the check of the new key.
AuthReqReplaceKeyfile_NoNewCheck(req, db, fault) ==
    IF AuthCheckMessage(req, 3) # "Ok" THEN ErrRes(AuthCheckMessage(req, 3), db)
    ELSE LET oldkey == message_args(req)[1].bytes
             newkey == message_args(req)[2].bytes
             newkeyfile == message_args(req)[3].bytes
             del == StoreDelete(db, oldkey, fault)
             set == StoreSet(del.db, newkey, newkeyfile, fault)
         IN  IF del.res = "Other"
             THEN OkResp(mkresponse(req, "DatabaseError", Bool(FALSE)), del.db)
             ELSE IF del.res = "Key"
             THEN OkResp(mkresponse(req, "KeyFileNotFound", Bin(del.v)), del.db)
             ELSE IF set.res = "Ok"
             THEN OkResp(mkresponse(req, "Nil", Bool(TRUE)), set.db)
             ELSE OkResp(mkresponse(req, "DatabaseError", Bool(FALSE)), set.db)

\* ProcessAuthRequest::req_replace_keyfile that binds the new key and keeps
\* the old one.
AuthReqReplaceKeyfile_KeepsOld(req, db, fault) ==
    IF AuthCheckMessage(req, 3) # "Ok" THEN ErrRes(AuthCheckMessage(req, 3), db)
    ELSE LET oldkey == message_args(req)[1].bytes
             newkey == message_args(req)[2].bytes
             newkeyfile == message_args(req)[3].bytes
             del == StoreDelete(db, oldkey, fault)
             set == StoreSet(db, newkey, newkeyfile, fault)
         IN  IF StoreExists(db, newkey, fault)
             THEN OkResp(mkresponse(req, "KeyFileExists", Bin(newkey)), db)
             ELSE IF del.res = "Other"
             THEN OkResp(mkresponse(req, "DatabaseError", Bool(FALSE)), del.db)
             ELSE IF del.res = "Key"
             THEN OkResp(mkresponse(req, "KeyFileNotFound", Bin(del.v)), del.db)
             ELSE IF set.res = "Ok"
             THEN OkResp(mkresponse(req, "Nil", Bool(TRUE)), set.db)
             ELSE OkResp(mkresponse(req, "DatabaseError", Bool(FALSE)), set.db)

\* ProcessAuthRequest::req_replace_keyfile
AuthReqReplaceKeyfile(req, db, fault) ==
    IF AuthCheckMessage(req, 3) # "Ok" THEN ErrRes(AuthCheckMessage(req, 3), db)
    ELSE LET oldkey == message_args(req)[1].bytes
             newkey == message_args(req)[2].bytes
             newkeyfile == message_args(req)[3].bytes
             del == StoreDelete(db, oldkey, fault)
             set == StoreSet(del.db, newkey, newkeyfile, fault)
         IN  IF StoreExists(db, newkey, fault)
             THEN OkResp(mkresponse(req, "KeyFileExists", Bin(newkey)), db)
             ELSE IF del.res = "Other"
             THEN OkResp(mkresponse(req, "DatabaseError", Bool(FALSE)), del.db)
             ELSE IF del.res = "Key"
             THEN OkResp(mkresponse(req, "KeyFileNotFound", Bin(del.v)), del.db)
             ELSE IF set.res = "Ok"
             THEN OkResp(mkresponse(req, "Nil", Bool(TRUE)), set.db)
             ELSE OkResp(mkresponse(req, "DatabaseError", Bool(FALSE)), set.db)

\* ProcessAuthRequest::run
AuthRequestRun(m, db, fault) ==
    IF RequestFrom(AuthMessage, m) # "Ok" THEN PanicRes(db)
    ELSE CASE message_code(AuthMessage, m) = "KeyExists" -> AuthReqKeyExists(m, db, fault)
           [] message_code(AuthMessage, m) = "GetKeyFile" -> AuthReqGetKeyfile(m, db, fault)
           [] message_code(AuthMessage, m) = "CreateKeyFile" -> AuthReqCreateKeyfile(m, db, fault)
           [] message_code(AuthMessage, m) = "ChangeKeyFile" -> AuthReqChangeKeyfile(m, db, fault)
           [] message_code(AuthMessage, m) = "DeleteKeyFile" -> AuthReqDelKeyfile(m, db, fault)
           [] message_code(AuthMessage, m) = "ChangeKey" -> AuthReqChangeKey(m, db, fault)
           [] message_code(AuthMessage, m) = "ReplaceKeyFile" -> AuthReqReplaceKeyfile(m, db, fault)

\* ProcessAuthMessage::change that takes every Notification for Done.
AuthChange_AnyNoticeEnds(m, db, fault) ==
    CASE message_type(m) = "Err" -> PanicRes(db)
      [] message_type(m) = "Request" ->
            KeepSession("ProcessAuthMessage", AuthRequestRun(m, db, fault))
      [] message_type(m) = "Notification" -> OkState("AuthEnd", None, db)
      [] message_type(m) = "Response" -> ErrRes("UnexpectedMessage", db)

\* ProcessAuthMessage::change
AuthChange(m, db, fault) ==
    CASE message_type(m) = "Err" -> PanicRes(db)
      [] message_type(m) = "Request" ->
            KeepSession("ProcessAuthMessage", AuthRequestRun(m, db, fault))
      [] message_type(m) = "Notification" ->
            IF NotificationFrom(AuthNotice, m) # "Ok"
            THEN ErrRes("InvalidNotification", db)
            ELSE OkState("AuthEnd", None, db)
      [] message_type(m) = "Response" -> ErrRes("UnexpectedMessage", db)

\* ------------------------------------------------------------------------
\* RpcState::process_message: the stored state, the store, the value the
\* returned future resolves to (ret), whether shutdown() was called and
\* whether the call panicked.  change is what SessionState::change returned.
\* ------------------------------------------------------------------------

PMResult(st, db, ret, sd, panic, change) ==
    [state |-> st, db |-> db, ret |-> ret, shutdown |-> sd, panic |-> panic,
     change |-> change]

\* The Start arm: the new state is stored when change succeeds, shutdown()
\* is called when it fails, and the result is None either way.
StartArm(c) ==
    IF c.kind = "Ok"
    THEN PMResult(c.state, c.db, None, FALSE, FALSE, c)
    ELSE PMResult("Nil", c.db, None, TRUE, FALSE, c)

\* The ProcessBootMessage and ProcessAuthMessage arms, alike but for the
\* names of the session state and of its end state.
SessionArm(session, end, c) ==
    CASE c.kind = "Panic" -> PMResult("Nil", c.db, None, FALSE, TRUE, c)
      [] c.kind = "Ok" /\ c.state = session /\ c.resp # None ->
            PMResult(session, c.db, c.resp, FALSE, FALSE, c)
      [] c.kind = "Err" \/ (c.kind = "Ok" /\ c.state = end) ->
            PMResult("Nil", c.db, None, TRUE, FALSE, c)
      [] OTHER -> PMResult("Nil", c.db, None, FALSE, TRUE, c)

process_message(st, db, msg, fault) ==
    CASE st \in {"Nil", "BootEnd", "AuthEnd"} ->
            PMResult("Nil", db, None, FALSE, TRUE, PanicRes(db))
      [] st = "Start" -> StartArm(StartChange(msg, db))
      [] st = "ProcessBootMessage" ->
            SessionArm("ProcessBootMessage", "BootEnd", BootChange(msg, db, fault))
      [] st = "ProcessAuthMessage" ->
            SessionArm("ProcessAuthMessage", "AuthEnd", AuthChange(msg, db, fault))

\* ------------------------------------------------------------------------
\* MsgPackCodec: the byte form of a Value and the frame decoder.
\* A byte is a number in 0..255; a buffer is a sequence of bytes.
\* ------------------------------------------------------------------------

RECURSIVE encode(_)
RECURSIVE encode_seq(_)

\* The concatenated encodings of the elements of s.
encode_seq(s) == IF s = <<>> THEN <<>> ELSE encode(Head(s)) \o encode_seq(Tail(s))

\* Encoder::encode: nil, bool, unsigned integers in their shortest form
\* (fixint, u8, u16, u32), bin8 and fixarray.
encode(val) ==
    CASE val.t = "nil" -> <<192>>
      [] val.t = "bool" -> IF val.b THEN <<195>> ELSE <<194>>
      [] val.t = "int" /\ val.hi = 0 /\ val.lo < 128 -> <<val.lo>>
      [] val.t = "int" /\ val.hi = 0 /\ val.lo >= 128 /\ val.lo < 256 -> <<204, val.lo>>
      [] val.t = "int" /\ val.hi = 0 /\ val.lo >= 256 ->
            <<205, val.lo \div 256, val.lo % 256>>
      [] val.t = "int" /\ val.hi > 0 /\ val.hi < Limb ->
            <<206, val.hi \div 256, val.hi % 256, val.lo \div 256, val.lo % 256>>
      [] val.t = "bin" -> <<196, Len(val.bytes)>> \o val.bytes
      [] val.t = "array" -> <<144 + Len(val.v)>> \o encode_seq(val.v)

\* What a read of n bytes at cursor position pos does when the buffer holds
\* them: the position after the read.  When it does not, the read fails and
\* the position is either left where it was or moved to the end of the
\* buffer, depending on the Cursor implementation (keep).
ReadOk(buf, pos, n) == pos + n <= Len(buf)

FailPos(buf, pos, keep) == IF keep THEN pos ELSE Len(buf)

DataEof(buf, pos, keep) ==
    [res |-> "InvalidDataRead", val |-> Nil, pos |-> FailPos(buf, pos, keep)]

RECURSIVE read_value(_, _, _)
RECURSIVE read_seq(_, _, _, _, _)

\* The elements of an array: n values read one after the other.
read_seq(buf, pos, keep, n, acc) ==
    IF n = 0 THEN [res |-> "Ok", val |-> Arr(acc), pos |-> pos]
    ELSE LET e == read_value(buf, pos, keep)
         IN  IF e.res # "Ok" THEN e
             ELSE read_seq(buf, e.pos, keep, n - 1, Append(acc, e.val))

\* Value::deserialize on the cursor at position pos: the result kind, the
\* value and the cursor position afterwards.
read_value(buf, pos, keep) ==
    IF ~ ReadOk(buf, pos, 1)
    THEN [res |-> "InvalidMarkerRead", val |-> Nil, pos |-> FailPos(buf, pos, keep)]
    ELSE LET m == buf[pos + 1]
             p == pos + 1
         IN  CASE m < 128 -> [res |-> "Ok", val |-> U(m), pos |-> p]
               [] m = 192 -> [res |-> "Ok", val |-> Nil, pos |-> p]
               [] m = 194 -> [res |-> "Ok", val |-> Bool(FALSE), pos |-> p]
               [] m = 195 -> [res |-> "Ok", val |-> Bool(TRUE), pos |-> p]
               [] m = 204 ->
                    IF ReadOk(buf, p, 1)
                    THEN [res |-> "Ok", val |-> U(buf[p + 1]), pos |-> p + 1]
                    ELSE DataEof(buf, p, keep)
               [] m = 205 ->
                    IF ReadOk(buf, p, 2)
                    THEN [res |-> "Ok", val |-> U(buf[p + 1] * 256 + buf[p + 2]),
                          pos |-> p + 2]
                    ELSE DataEof(buf, p, keep)
               [] m = 206 ->
                    IF ReadOk(buf, p, 4)
                    THEN [res |-> "Ok",
                          val |-> IntV(buf[p + 1] * 256 + buf[p + 2],
                                       buf[p + 3] * 256 + buf[p + 4]),
                          pos |-> p + 4]
                    ELSE DataEof(buf, p, keep)
               [] m = 196 ->
                    IF ~ ReadOk(buf, p, 1) THEN DataEof(buf, p, keep)
                    ELSE IF ~ ReadOk(buf, p + 1, buf[p + 1])
                        THEN DataEof(buf, p + 1, keep)
                    ELSE [res |-> "Ok",
                          val |-> Bin(SubSeq(buf, p + 2, p + 1 + buf[p + 1])),
                          pos |-> p + 1 + buf[p + 1]]
               [] m >= 144 /\ m < 160 -> read_seq(buf, p, keep, m - 144, <<>>)
               [] OTHER -> [res |-> "TypeMismatch", val |-> Nil, pos |-> p]

\* MsgPackCodec::handle_decode_error: TRUE when the error is returned to the
\* caller, FALSE when it is read as "incomplete".
handle_decode_error(err) == err # "InvalidDataRead"

\* Decoder::decode that empties the buffer whenever it returns a value.
decode_TakesAll(buf, keep) ==
    IF Len(buf) = 0 THEN [res |-> "OkNone", val |-> Nil, buf |-> buf]
    ELSE LET result == read_value(buf, 0, keep)
             left == SubSeq(buf, result.pos + 1, Len(buf))
         IN  IF result.res = "Ok"
             THEN [res |-> "OkSome", val |-> result.val, buf |-> <<>>]
             ELSE IF handle_decode_error(result.res)
             THEN [res |-> "Err", val |-> Nil, buf |-> left]
             ELSE [res |-> "OkNone", val |-> Nil, buf |-> left]

\* Decoder::decode: the result, the decoded value and the buffer afterwards.
decode(buf, keep) ==
    IF Len(buf) = 0 THEN [res |-> "OkNone", val |-> Nil, buf |-> buf]
    ELSE LET result == read_value(buf, 0, keep)
             left == SubSeq(buf, result.pos + 1, Len(buf))
         IN  IF result.res = "Ok"
             THEN [res |-> "OkSome", val |-> result.val, buf |-> left]
             ELSE IF handle_decode_error(result.res)
             THEN [res |-> "Err", val |-> Nil, buf |-> left]
             ELSE [res |-> "OkNone", val |-> Nil, buf |-> left]

\* ------------------------------------------------------------------------
\* The messages a client may send
\* ------------------------------------------------------------------------

Blobs == {<<b>> : b \in 1..NumBlobs}

\* Every store over Blobs: at most one file per key.
Stores == {s \in SUBSET (Blobs \X Blobs) :
             \A p \in s, q \in s : p[1] = q[1] => p = q}

\* Argument arrays of up to MaxArgs elements: every array of binaries, and
\* the arrays that hold nil at one position.
BinArrays == UNION {[1..k -> {Bin(b) : b \in Blobs}] : k \in 0..MaxArgs}

NilArrays ==
    UNION {{[i \in 1..k |-> IF i = j THEN Nil ELSE Bin(<<1>>)] : j \in 1..k} :
             k \in 1..MaxArgs}

ArgArrays == {Arr(s) : s \in BinArrays \cup NilArrays}

MsgIds == {U(7), U(8)}

\* 2^32, one more than u32::MAX.
BigId == IntV(Limb, 0)

Requests == {Arr(<<U(0), id, U(c), a>>) : id \in MsgIds, c \in 0..6, a \in ArgArrays}

BadRequests ==
    { Arr(<<U(0), BigId, U(0), Arr(<<Bin(<<1>>)>>)>>),
      Arr(<<U(0), Nil, U(0), Arr(<<Bin(<<1>>)>>)>>),
      Arr(<<U(0), U(7), U(7), Arr(<<Bin(<<1>>)>>)>>),
      Arr(<<U(0), U(7), U(256), Arr(<<Bin(<<1>>)>>)>>),
      Arr(<<U(0), U(7), Nil, Arr(<<Bin(<<1>>)>>)>>),
      Arr(<<U(0), U(7), U(0), Nil>>),
      Arr(<<U(0), U(7), U(0), Bin(<<1>>)>>),
      Arr(<<U(0), U(7), Arr(<<Bin(<<1>>)>>)>>) }

Responses == {Arr(<<U(1), U(7), U(0), r>>) : r \in {Nil, Bool(TRUE)}}

NoticeArgs == {Arr(<<>>), Arr(<<Nil>>), Arr(<<Bin(<<1>>)>>)}

Notifications ==
    {Arr(<<U(2), U(c), a>>) : c \in 0..3, a \in NoticeArgs \cup {Nil}}
    \cup { Arr(<<U(2), U(256), Arr(<<>>)>>),
           Arr(<<U(2), Nil, Arr(<<>>)>>),
           Arr(<<U(2), U(0), Arr(<<>>), Nil>>),
           Arr(<<U(2), U(2), Arr(<<>>), Nil>>) }

UnknownTypes ==
    { Arr(<<U(3), U(7), U(0), Arr(<<Bin(<<1>>)>>)>>),
      Arr(<<U(255), U(2), Arr(<<>>)>>) }

\* The base Messages: every candidate that Message::from accepts.
Messages ==
    {m \in Requests \cup BadRequests \cup Responses \cup Notifications
           \cup UnknownTypes : MessageFrom(m) = "Ok"}

\* The store calls each request handler makes once its precheck has passed.
BootStoreCalls == (0 :> {"exists"}) @@ (1 :> {"get"})

AuthStoreCalls ==
    (0 :> {"get"}) @@ (1 :> {"exists", "set"}) @@ (2 :> {"exists", "set"})
    @@ (3 :> {"exists", "get", "delete", "set"})
    @@ (4 :> {"exists", "delete", "set"}) @@ (5 :> {"exists", "delete"})
    @@ (6 :> {"exists"})

\* The number of arguments each Auth request handler asks its precheck for.
AuthArgCount ==
    (0 :> 1) @@ (1 :> 2) @@ (2 :> 2) @@ (3 :> 2) @@ (4 :> 3) @@ (5 :> 1) @@ (6 :> 1)

\* The engine errors that can strike while st serves m: at most one store
\* call fails, and only a call that the handler of m makes.
Faults(st, m) ==
    IF st = "ProcessBootMessage" /\ message_type(m) = "Request"
       /\ RequestFrom(BootMessage, m) = "Ok" /\ BootCheckMessage(m) = "Ok"
    THEN {"none"} \cup BootStoreCalls[as_u64(m.v[3]).lo]
    ELSE IF st = "ProcessAuthMessage" /\ message_type(m) = "Request"
       /\ RequestFrom(AuthMessage, m) = "Ok"
       /\ AuthCheckMessage(m, AuthArgCount[as_u64(m.v[3]).lo]) = "Ok"
    THEN {"none"} \cup AuthStoreCalls[as_u64(m.v[3]).lo]
    ELSE {"none"}

\* The frames of one connection: the two session starts, two requests that
\* are valid in either session, Done, a response, a value that is no
\* message, and bytes the decoder rejects.
BadBytes == [t |-> "undecodable"]

ClientFrames ==
    { Arr(<<U(2), U(0), Arr(<<>>)>>),
      Arr(<<U(2), U(1), Arr(<<>>)>>),
      Arr(<<U(0), U(7), U(0), Arr(<<Bin(<<1>>)>>)>>),
      Arr(<<U(0), U(8), U(0), Arr(<<Bin(<<2>>)>>)>>),
      Arr(<<U(2), U(2), Arr(<<>>)>>),
      Arr(<<U(1), U(7), U(0), Nil>>),
      Nil,
      BadBytes }

\* The stores a connection may find when it is accepted.
ConnStores == {{}, {<<<<1>>, <<1>>>>}}

\* The values whose encodings are fed to the decoder.
CodecValues ==
    { Nil, Bool(TRUE), U(7), U(204), Bin(<<>>), Bin(<<1>>), Bin(<<1, 2>>),
      Arr(<<>>), Arr(<<Nil>>), Arr(<<U(7), Bin(<<1>>)>>),
      Arr(<<U(2), U(0), Arr(<<>>)>>),
      Arr(<<U(0), U(7), U(0), Arr(<<Bin(<<1>>)>>)>>) }

\* The values that may follow on the wire: none, or one more value.
CodecFollowers == {None, Nil, Bin(<<1, 2>>), Arr(<<U(7), Bin(<<1>>)>>)}

\* ------------------------------------------------------------------------
\* State
\* ------------------------------------------------------------------------

VARIABLES
    state,      \* RpcState.state
    keyfile,    \* the shared key-file store
    control,    \* number of Shutdown messages pushed onto the server control channel
    panicked,   \* the thread running the session has panicked
    last,       \* the latest process_message call: its input and its outcome
    wire,       \* frames of the connection that the reader has not yielded yet
    sent,       \* every frame the client has sent, in order
    closed,     \* the client has closed its side of the connection
    sendState,  \* SendMessage.state
    written,    \* the values the socket writer has accepted, in order
    taskDone,   \* the SendMessage future spawned for the connection has completed
    cvalue,     \* the value whose encoding the peer sends to the decoder
    cnext,      \* the value the peer sends right after it, or None
    keepPos,    \* a failed read leaves the cursor position where it was
    rest,       \* bytes of the encoding that have not arrived yet
    buf,        \* the decoder's buffer
    dlast,      \* the latest decode call: buffer before, result, buffer after
    cfailed,    \* decode has returned an error
    fin,        \* the input of a conversion that is called on its own
    fout,       \* what the conversion returned
    lstore,     \* the KeyFileStore behind the RwLock
    lock,       \* the RwLock: the connection holding the write guard, those holding read guards
    conn,       \* per connection, the point its request handler has reached
    srv,        \* the Server stream, its channels and the event loop of serve
    ms          \* a msg_stream given to send_message, and what its polls returned

sessionVars == <<state, keyfile, control, panicked, last>>

connVars == <<wire, sent, closed, sendState, written, taskDone>>

codecVars == <<cvalue, cnext, keepPos, rest, buf, dlast, cfailed>>

vars == <<state, keyfile, control, panicked, last,
          wire, sent, closed, sendState, written, taskDone,
          cvalue, cnext, keepPos, rest, buf, dlast, cfailed,
          fin, fout, lstore, lock, conn, srv, ms>>

pureVars == <<fin, fout>>

\* The variables of the specifications that follow the decoder's.
lockVars == <<lstore, lock, conn>>

serverVars == <<srv>>

sendVars == <<ms>>

auxVars == <<pureVars, lockVars, serverVars, sendVars>>

NoCall == [pre |-> "", msg |-> Nil, fault |-> "none", store |-> {}, ret |-> None,
           sd |-> FALSE, kind |-> "", next |-> "", err |-> ""]

NoDecode == [pre |-> <<>>, res |-> "", val |-> Nil, post |-> <<>>]

\* SendMessageState
SendStart == [st |-> "Start", msg |-> Nil]

SendFull(msg) == [st |-> "Full", msg |-> msg]

SendWaiting == [st |-> "Waiting", msg |-> Nil]

SendEmpty == [st |-> "Empty", msg |-> Nil]

\* No connection is being served.
ConnIdle ==
    /\ wire = <<>>
    /\ sent = <<>>
    /\ closed = FALSE
    /\ sendState = SendStart
    /\ written = <<>>
    /\ taskDone = FALSE

\* No decoder is being run.
CodecIdle ==
    /\ cvalue = Nil
    /\ cnext = None
    /\ keepPos = FALSE
    /\ rest = <<>>
    /\ buf = <<>>
    /\ dlast = NoDecode
    /\ cfailed = FALSE

\* No conversion is being called on its own.
NoInput == [f |-> "", enum |-> "", n |-> 0, v |-> Nil]

NoOutput == [made |-> FALSE, ok |-> FALSE, variant |-> "", number |-> 0,
             kind |-> "", description |-> <<>>]

PureIdle ==
    /\ fin = NoInput
    /\ fout = NoOutput

\* The connections whose handlers share the store.
Conns == {"a", "b"}

\* The keys and key files of their requests.
LockBlobs == {<<1>>, <<2>>}

\* A connection that is not inside a request handler.
NoRequest ==
    [pc |-> "idle", method |-> "", old |-> <<>>, new |-> <<>>, file |-> <<>>,
     mid |-> FALSE]

\* The RwLock with no guard alive.
Unlocked == [writer |-> "", readers |-> {}]

\* No handler is being run step by step.
LockIdle ==
    /\ lstore = {}
    /\ lock = Unlocked
    /\ conn = [c \in Conns |-> NoRequest]

\* serve as core.run is entered: Server::new has made both channels, no
\* connection has arrived, and the main future is about to be polled first.
\* ctl and hq are the queues of the control and the handler channel; of
\* each receiver, Task tells that the main task is parked on it and Unparked
\* that a send has signalled it since it last parked.  undrained and hdlBusy
\* remember what a poll of the stream has done: polled the listener with
\* control messages left in the queue, taken a handler item after the
\* listener had accepted a connection.
NewServer ==
    [ctl |-> <<>>, ctlTask |-> FALSE, ctlUnparked |-> FALSE,
     hq |-> <<>>, hOpen |-> TRUE, hTask |-> FALSE, hUnparked |-> FALSE,
     backlog |-> <<>>, lsnTask |-> FALSE,
     spawned |-> {}, notified |-> TRUE,
     live |-> {}, yielded |-> <<>>, ended |-> FALSE, returned |-> FALSE,
     ext |-> "", pushed |-> FALSE, processed |-> FALSE, late |-> {},
     undrained |-> FALSE, hdlBusy |-> FALSE,
     next |-> 1]

\* No server is being run.
ServerIdle == srv = NewServer

\* A msg_stream that has rest to yield and has yielded pulled; ret is what
\* the latest SendMessage::poll returned, flushed whether the sink's latest
\* poll_complete returned Ready, retried whether the sink has accepted a
\* value it had rejected before.
NewStream(values) ==
    [rest |-> values, pulled |-> <<>>, ret |-> "", flushed |-> TRUE,
     retried |-> FALSE]

\* No SendMessage is being driven on a stream of its own.
SendIdle == ms = NewStream(<<>>)

AuxIdle == PureIdle /\ LockIdle /\ ServerIdle /\ SendIdle

\* ------------------------------------------------------------------------
\* Specification Spec: one RpcState, driven call by call by its owner
\* ------------------------------------------------------------------------

\* RpcState::new over any stored database.
Init ==
    /\ state = "Start"
    /\ keyfile \in Stores
    /\ control = 0
    /\ panicked = FALSE
    /\ last = NoCall
    /\ ConnIdle
    /\ CodecIdle
    /\ AuxIdle

\* One call of RpcState::process_message by the owner of the RpcState, made
\* once the future returned by the previous call has been consumed.
ProcessMessage ==
    /\ ~ panicked
    /\ last.pre = ""
    /\ \E msg \in Messages :
       \E fault \in Faults(state, msg) :
       \E r \in {process_message(state, keyfile, msg, fault)} :
              /\ state' = r.state
              /\ keyfile' = r.db
              /\ control' = IF r.shutdown THEN control + 1 ELSE control
              /\ panicked' = r.panic
              /\ last' = [pre |-> state, msg |-> msg, fault |-> fault,
                          store |-> keyfile, ret |-> r.ret, sd |-> r.shutdown,
                          kind |-> r.change.kind, next |-> r.change.state,
                          err |-> r.change.err]
    /\ UNCHANGED connVars
    /\ UNCHANGED codecVars
    /\ UNCHANGED auxVars

\* The owner polls the returned future, takes its value and drops it.
PollFuture ==
    /\ ~ panicked
    /\ last.pre # ""
    /\ last' = NoCall
    /\ UNCHANGED <<state, keyfile, control, panicked>>
    /\ UNCHANGED connVars
    /\ UNCHANGED codecVars
    /\ UNCHANGED auxVars

Next == ProcessMessage \/ PollFuture

Spec == Init /\ [][Next]_vars

\* ------------------------------------------------------------------------
\* Specification ConnSpec: one accepted connection, as serve() wires it
\* ------------------------------------------------------------------------

\* serve: a fresh RpcService, RpcState and SendMessage for the socket.
ConnInit ==
    /\ state = "Start"
    /\ keyfile \in ConnStores
    /\ control = 0
    /\ panicked = FALSE
    /\ last = NoCall
    /\ ConnIdle
    /\ CodecIdle
    /\ AuxIdle

\* The client sends one more frame.
ClientSend(f) ==
    /\ ~ closed
    /\ Len(sent) < MaxFrames
    /\ wire' = Append(wire, f)
    /\ sent' = Append(sent, f)
    /\ UNCHANGED <<closed, sendState, written, taskDone>>
    /\ UNCHANGED sessionVars
    /\ UNCHANGED codecVars
    /\ UNCHANGED auxVars

\* The client closes its side: the reader ends after the frames in flight.
ClientClose ==
    /\ ~ closed
    /\ closed' = TRUE
    /\ UNCHANGED <<wire, sent, sendState, written, taskDone>>
    /\ UNCHANGED sessionVars
    /\ UNCHANGED codecVars
    /\ UNCHANGED auxVars

\* What the socket writer answers to start_send and to poll_complete.
SinkOutcomes == {"NotReady", "ReadyFlushed", "ReadyPending"}

\* A poll_complete that leaves the state mem::replace put there when the
\* sink has not flushed.
PollComplete_LeavesEmpty(sink) ==
    /\ sendState' = IF sink = "ReadyFlushed" THEN SendStart ELSE SendEmpty
    /\ UNCHANGED written

\* A poll_complete that goes back to the stream whatever the sink says.
PollComplete_AlwaysStart(sink) ==
    /\ sendState' = SendStart
    /\ UNCHANGED written

\* SendMessage::poll_complete
PollComplete(sink) ==
    /\ sendState' = IF sink = "ReadyFlushed" THEN SendStart ELSE SendWaiting
    /\ UNCHANGED written

\* A start_send that forgets the value the sink rejected.
StartSend_DropsRejected(msg, sink) ==
    IF sink = "NotReady"
    THEN /\ sendState' = SendStart
         /\ UNCHANGED written
    ELSE /\ written' = Append(written, msg)
         /\ sendState' = IF sink = "ReadyFlushed" THEN SendStart ELSE SendWaiting

\* SendMessage::start_send
StartSend(msg, sink) ==
    IF sink = "NotReady"
    THEN /\ sendState' = SendFull(msg)
         /\ UNCHANGED written
    ELSE /\ written' = Append(written, msg)
         /\ sendState' = IF sink = "ReadyFlushed" THEN SendStart ELSE SendWaiting

\* A stream that is polled again after it produced None.
TaskEnds_KeepsPolling ==
    /\ taskDone' = FALSE
    /\ sendState' = SendStart
    /\ UNCHANGED written

\* The msg_stream completes or fails: SendMessage::poll returns and the
\* spawned task is over.
TaskEnds ==
    /\ taskDone' = TRUE
    /\ sendState' = SendEmpty
    /\ UNCHANGED written

\* SendMessage::poll in state Start: one poll of the responses stream built
\* by serve (reader, service.call, take_while, filter, process_message,
\* take_while, filter, map), then start_send of the value it yields.
PollResponses(sink) ==
    IF wire = <<>>
    THEN /\ closed
         /\ TaskEnds
         /\ UNCHANGED <<wire, state, keyfile, control, panicked>>
    ELSE /\ wire' = Tail(wire)
         /\ IF Head(wire) = BadBytes
            THEN /\ TaskEnds
                 /\ UNCHANGED <<state, keyfile, control, panicked>>
            ELSE IF MessageFrom(Head(wire)) # "Ok"
            THEN /\ control' = control + 1
                 /\ TaskEnds
                 /\ UNCHANGED <<state, keyfile, panicked>>
            ELSE \E r \in {process_message(state, keyfile, Head(wire), "none")} :
                     /\ state' = r.state
                     /\ keyfile' = r.db
                     /\ control' = IF r.shutdown THEN control + 1 ELSE control
                     /\ panicked' = r.panic
                     /\ IF r.panic
                        THEN UNCHANGED <<sendState, written, taskDone>>
                        ELSE IF r.ret = None
                        THEN TaskEnds
                        ELSE IF r.ret = Nil
                        THEN UNCHANGED <<sendState, written, taskDone>>
                        ELSE /\ StartSend(r.ret, sink)
                             /\ UNCHANGED taskDone

\* One poll of the connection's SendMessage future by the event loop.
Poll ==
    /\ ~ taskDone
    /\ ~ panicked
    /\ \E sink \in SinkOutcomes :
          CASE sendState.st = "Start" -> PollResponses(sink)
            [] sendState.st = "Full" ->
                  /\ StartSend(sendState.msg, sink)
                  /\ UNCHANGED <<wire, state, keyfile, control, panicked, taskDone>>
            [] sendState.st = "Waiting" ->
                  /\ PollComplete(sink)
                  /\ UNCHANGED <<wire, state, keyfile, control, panicked, taskDone>>
            [] sendState.st = "Empty" ->
                  /\ panicked' = TRUE
                  /\ UNCHANGED <<wire, state, keyfile, control, sendState, written,
                                 taskDone>>
    /\ UNCHANGED <<sent, closed, last>>
    /\ UNCHANGED codecVars
    /\ UNCHANGED auxVars

ConnNext == (\E f \in ClientFrames : ClientSend(f)) \/ ClientClose \/ Poll

ConnSpec == ConnInit /\ [][ConnNext]_vars

\* ------------------------------------------------------------------------
\* Specification CodecSpec: the decoder fed the encoding of one value, in
\* whatever pieces the socket delivers it
\* ------------------------------------------------------------------------

CodecInit ==
    /\ state = "Start"
    /\ keyfile = {}
    /\ control = 0
    /\ panicked = FALSE
    /\ last = NoCall
    /\ ConnIdle
    /\ cvalue \in CodecValues
    /\ cnext \in CodecFollowers
    /\ keepPos \in BOOLEAN
    /\ rest = encode(cvalue) \o (IF cnext = None THEN <<>> ELSE encode(cnext))
    /\ buf = <<>>
    /\ dlast = NoDecode
    /\ cfailed = FALSE
    /\ AuxIdle

\* The socket delivers the next bytes into the buffer.
Feed ==
    /\ ~ cfailed
    /\ rest # <<>>
    /\ \E k \in 1..Len(rest) :
          /\ buf' = buf \o SubSeq(rest, 1, k)
          /\ rest' = SubSeq(rest, k + 1, Len(rest))
    /\ UNCHANGED <<cvalue, cnext, keepPos, dlast, cfailed>>
    /\ UNCHANGED sessionVars
    /\ UNCHANGED connVars
    /\ UNCHANGED auxVars

\* The framed reader calls decode on the buffer.
Decode ==
    /\ ~ cfailed
    /\ LET r == decode(buf, keepPos)
       IN  /\ buf' = r.buf
           /\ dlast' = [pre |-> buf, res |-> r.res, val |-> r.val, post |-> r.buf]
           /\ cfailed' = (r.res = "Err")
    /\ UNCHANGED <<cvalue, cnext, keepPos, rest>>
    /\ UNCHANGED sessionVars
    /\ UNCHANGED connVars
    /\ UNCHANGED auxVars

CodecNext == Feed \/ Decode

CodecSpec == CodecInit /\ [][CodecNext]_vars

\* ------------------------------------------------------------------------
\* Specification PureSpec: the conversions of the protocol vocabulary, each
\* called once on an input of its domain
\* ------------------------------------------------------------------------

\* The enums that implement CodeConvert, by name.
CodeEnums ==
    [MessageType |-> MessageType, SessionType |-> SessionType,
     BootMessage |-> BootMessage, BootError |-> BootError,
     BootNotice |-> BootNotice, AuthMessage |-> AuthMessage,
     AuthError |-> AuthError, AuthNotice |-> AuthNotice]

\* Every enum with every u8.
CodeInputs ==
    {[f |-> "from_number", enum |-> e, n |-> n, v |-> Nil] :
        e \in DOMAIN CodeEnums, n \in 0..U8Max.lo}

\* Values offered to Message::from: arrays of 3 and 4 elements headed by
\* every u8, and values it rejects (a head that is no u8, a wrong length, no
\* array).
MessageInputs ==
    {[f |-> "message_type", enum |-> "", n |-> 0, v |-> val] :
        val \in {Arr(<<U(t), U(0), Arr(<<>>)>>) : t \in 0..U8Max.lo}
                \cup {Arr(<<U(t), U(7), U(0), Arr(<<>>)>>) : t \in 0..U8Max.lo}
                \cup { Arr(<<U(256), U(0), Arr(<<>>)>>),
                       Arr(<<Nil, U(0), Arr(<<>>)>>),
                       Arr(<<U(0), U(0)>>),
                       Arr(<<U(0), U(7), U(0), Arr(<<>>), Nil>>),
                       Nil }}

PureInit ==
    /\ state = "Start"
    /\ keyfile = {}
    /\ control = 0
    /\ panicked = FALSE
    /\ last = NoCall
    /\ ConnIdle
    /\ CodecIdle
    /\ fin \in CodeInputs \cup MessageInputs
    /\ fout = NoOutput
    /\ LockIdle
    /\ ServerIdle
    /\ SendIdle

\* C::from_number(n), and to_number of the variant it returns.
FromNumber ==
    /\ fin.f = "from_number"
    /\ fout = NoOutput
    /\ fout' =
          IF from_number(CodeEnums[fin.enum], fin.n) # "InvalidValue"
          THEN [made |-> TRUE, ok |-> TRUE,
                variant |-> from_number(CodeEnums[fin.enum], fin.n),
                number |-> to_number(CodeEnums[fin.enum],
                                     from_number(CodeEnums[fin.enum], fin.n)),
                kind |-> "", description |-> <<>>]
          ELSE [made |-> TRUE, ok |-> FALSE, variant |-> "", number |-> 0,
                kind |-> from_number_err(fin.enum, fin.n).kind,
                description |-> from_number_err(fin.enum, fin.n).description]
    /\ UNCHANGED fin
    /\ UNCHANGED sessionVars
    /\ UNCHANGED connVars
    /\ UNCHANGED codecVars
    /\ UNCHANGED lockVars
    /\ UNCHANGED serverVars
    /\ UNCHANGED sendVars

\* Message::from(v) and, when it returns a Message, message_type() on it.
MessageTypeOf ==
    /\ fin.f = "message_type"
    /\ fout = NoOutput
    /\ fout' =
          IF MessageFrom(fin.v) # "Ok"
          THEN [made |-> FALSE, ok |-> FALSE, variant |-> "", number |-> 0,
                kind |-> MessageFrom(fin.v), description |-> <<>>]
          ELSE IF message_type(fin.v) = "Err"
          THEN [made |-> TRUE, ok |-> FALSE, variant |-> "", number |-> 0,
                kind |-> "InvalidMessageType", description |-> <<>>]
          ELSE [made |-> TRUE, ok |-> TRUE, variant |-> message_type(fin.v),
                number |-> to_number(MessageType, message_type(fin.v)),
                kind |-> "", description |-> <<>>]
    /\ UNCHANGED fin
    /\ UNCHANGED sessionVars
    /\ UNCHANGED connVars
    /\ UNCHANGED codecVars
    /\ UNCHANGED lockVars
    /\ UNCHANGED serverVars
    /\ UNCHANGED sendVars

PureNext == FromNumber \/ MessageTypeOf

PureSpec == PureInit /\ [][PureNext]_vars

\* ------------------------------------------------------------------------
\* Specification LockSpec: the Auth request handlers of two connections,
\* store call by store call, around the RwLock of the shared store.  The
\* connections are scheduled freely between any two store calls: the event
\* loop of serve runs every handler to its end on one thread (KeyFileDB is
\* an Rc), so each of its schedules is one of these.
\* ------------------------------------------------------------------------

\* The requests a handler is entered with, their arguments already checked.
LockRequests ==
    {[pc |-> "lock", method |-> "GetKeyFile", old |-> k, new |-> <<>>,
      file |-> <<>>, mid |-> FALSE] : k \in LockBlobs}
    \cup {[pc |-> "lock", method |-> "ChangeKey", old |-> k, new |-> n,
           file |-> <<>>, mid |-> FALSE] : k \in LockBlobs, n \in LockBlobs}
    \cup {[pc |-> "lock", method |-> "ReplaceKeyFile", old |-> k, new |-> n,
           file |-> f, mid |-> FALSE] :
              k \in LockBlobs, n \in LockBlobs, f \in LockBlobs}

LockInit ==
    /\ state = "Start"
    /\ keyfile = {}
    /\ control = 0
    /\ panicked = FALSE
    /\ last = NoCall
    /\ ConnIdle
    /\ CodecIdle
    /\ PureIdle
    /\ lstore \in {st \in Stores : \A p \in st : p[1] \in LockBlobs /\ p[2] \in LockBlobs}
    /\ lock = Unlocked
    /\ conn = [c \in Conns |-> NoRequest]
    /\ ServerIdle
    /\ SendIdle

\* The handler of a request is entered.
Enter(c) ==
    /\ conn[c].pc = "idle"
    /\ \E r \in LockRequests : conn' = [conn EXCEPT ![c] = r]
    /\ UNCHANGED <<lstore, lock>>
    /\ UNCHANGED <<sessionVars, connVars, codecVars, pureVars, serverVars, sendVars>>

\* db.read().unwrap() of req_get_keyfile: granted while no write guard is
\* alive.
ReadLock(c) ==
    /\ conn[c].pc = "lock"
    /\ conn[c].method = "GetKeyFile"
    /\ lock.writer = ""
    /\ lock' = [lock EXCEPT !.readers = @ \cup {c}]
    /\ conn' = [conn EXCEPT ![c].pc = "get"]
    /\ UNCHANGED lstore
    /\ UNCHANGED <<sessionVars, connVars, codecVars, pureVars, serverVars, sendVars>>

\* db.write().unwrap() of req_change_key and req_replace_keyfile: granted
\* while no guard is alive.
WriteLock(c) ==
    /\ conn[c].pc = "lock"
    /\ conn[c].method \in {"ChangeKey", "ReplaceKeyFile"}
    /\ lock = Unlocked
    /\ lock' = [lock EXCEPT !.writer = c]
    /\ conn' = [conn EXCEPT ![c].pc = "exists"]
    /\ UNCHANGED lstore
    /\ UNCHANGED <<sessionVars, connVars, codecVars, pureVars, serverVars, sendVars>>

\* The next store call of a handler and the branch taken on its result: the
\* connection afterwards, and the store.  file carries the key file that
\* req_change_key has read; mid tells that old is deleted and new not yet set.
StoreCall(r, db, fault) ==
    CASE r.pc = "exists" ->
            [db |-> db,
             r |-> [r EXCEPT !.pc = IF StoreExists(db, r.new, fault) THEN "end"
                                    ELSE IF r.method = "ChangeKey" THEN "get"
                                    ELSE "delete"]]
      [] r.pc = "get" /\ r.method = "GetKeyFile" ->
            [db |-> db, r |-> [r EXCEPT !.pc = "end"]]
      [] r.pc = "get" /\ r.method = "ChangeKey" ->
            [db |-> db,
             r |-> IF StoreGet(db, r.old, fault).res = "Ok"
                   THEN [r EXCEPT !.pc = "delete",
                                  !.file = StoreGet(db, r.old, fault).v]
                   ELSE [r EXCEPT !.pc = "end"]]
      [] r.pc = "delete" ->
            [db |-> StoreDelete(db, r.old, fault).db,
             r |-> IF StoreDelete(db, r.old, fault).res = "Ok"
                   THEN [r EXCEPT !.pc = "set", !.mid = TRUE]
                   ELSE [r EXCEPT !.pc = "end"]]
      [] r.pc = "set" ->
            [db |-> StoreSet(db, r.new, r.file, fault).db,
             r |-> [r EXCEPT !.pc = "end", !.mid = FALSE]]

\* A guard that is dropped once old is deleted, before the set.
GuardDropped_BeforeSet(r) == r.pc \in {"set", "end"}

\* The point where the guard `db` of a handler is dropped: the end of the
\* block (req_get_keyfile) or of the function body that declares it.
GuardDropped(r) == r.pc = "end"

\* One store call of the handler of c.
Call(c) ==
    /\ conn[c].pc \in {"exists", "get", "delete", "set"}
    /\ \E fault \in {"none", "exists", "get", "delete", "set"} :
          /\ lstore' = StoreCall(conn[c], lstore, fault).db
          /\ conn' = [conn EXCEPT ![c] = StoreCall(conn[c], lstore, fault).r]
    /\ UNCHANGED lock
    /\ UNCHANGED <<sessionVars, connVars, codecVars, pureVars, serverVars, sendVars>>

\* The guard of c goes out of scope; at the end of the handler the
\* connection is free for its next request.
Drop(c) ==
    /\ GuardDropped(conn[c])
    /\ conn[c].pc = "end" \/ lock.writer = c
    /\ lock' = [writer |-> IF lock.writer = c THEN "" ELSE lock.writer,
                readers |-> lock.readers \ {c}]
    /\ conn' = [conn EXCEPT ![c] = IF conn[c].pc = "end" THEN NoRequest ELSE @]
    /\ UNCHANGED lstore
    /\ UNCHANGED <<sessionVars, connVars, codecVars, pureVars, serverVars, sendVars>>

LockNext ==
    \E c \in Conns : Enter(c) \/ ReadLock(c) \/ WriteLock(c) \/ Call(c) \/ Drop(c)

LockSpec == LockInit /\ [][LockNext]_vars

\* ------------------------------------------------------------------------
\* Specification ServerSpec: serve's event loop around the Server stream.
\* The main task is server.for_each(..).select2(shutdown); the futures that
\* sendmsg and poll_msg spawn run on later turns of the loop.  A connection
\* is a number; a control message is Send(c) or Shutdown, c telling for a
\* Shutdown the session that asked for it (0: the outside).
\* ------------------------------------------------------------------------

SendMsg(c) == [t |-> "Send", c |-> c]

ShutdownMsg(c) == [t |-> "Shutdown", c |-> c]

\* control.send(msg) that never notifies the receiver's task.
CtlSend_Silent(s, msg) ==
    [s EXCEPT !.ctl = Append(@, msg),
              !.pushed = @ \/ msg.t = "Shutdown",
              !.ctlUnparked = TRUE]

\* control.send(msg) of sendmsg, by a sender cloned for this one send: the
\* message is queued at once, and the receiver's task is notified unless a
\* send has signalled it since it last parked.
CtlSend(s, msg) ==
    [s EXCEPT !.ctl = Append(@, msg),
              !.pushed = @ \/ msg.t = "Shutdown",
              !.ctlUnparked = TRUE,
              !.ctlTask = IF s.ctlUnparked THEN @ ELSE FALSE,
              !.notified = @ \/ (~ s.ctlUnparked /\ s.ctlTask)]

\* tx.send((socket, addr)) on the handler channel: refused once the receiver
\* is closed (the connection is dropped), else queued, with the same signal.
HandlerSend(s, c) ==
    IF ~ s.hOpen THEN s
    ELSE [s EXCEPT !.hq = Append(@, c),
                   !.hUnparked = TRUE,
                   !.hTask = IF s.hUnparked THEN @ ELSE FALSE,
                   !.notified = @ \/ (~ s.hUnparked /\ s.hTask)]

\* Server::poll_msg that leaves the handler channel open on Shutdown.
poll_msg_KeepsHandlerOpen(s) ==
    IF s.ctl = <<>>
    THEN [s EXCEPT !.ctlTask = TRUE, !.ctlUnparked = FALSE]
    ELSE IF Head(s.ctl).t = "Send"
    THEN [s EXCEPT !.ctl = Tail(@),
                   !.spawned = @ \cup {[to |-> "handler", m |-> Head(s.ctl)]}]
    ELSE [s EXCEPT !.ctl = Tail(@), !.processed = TRUE]

\* Server::poll_msg: one rx.poll() of the control receiver.  Empty, it parks
\* the task; Send spawns the send on the handler channel; Shutdown closes
\* the handler receiver.  Every arm the model reaches returns NotReady.
poll_msg(s) ==
    IF s.ctl = <<>>
    THEN [s EXCEPT !.ctlTask = TRUE, !.ctlUnparked = FALSE]
    ELSE IF Head(s.ctl).t = "Send"
    THEN [s EXCEPT !.ctl = Tail(@),
                   !.spawned = @ \cup {[to |-> "handler", m |-> Head(s.ctl)]}]
    ELSE [s EXCEPT !.ctl = Tail(@), !.hOpen = FALSE, !.processed = TRUE]

\* Server::poll_listener: one poll of Incoming.  An accepted connection is
\* re-routed with sendmsg; the task is registered with the listener only
\* when accept would block.  Both arms return NotReady.
poll_listener(s) ==
    IF s.backlog = <<>>
    THEN [s EXCEPT !.lsnTask = TRUE]
    ELSE [s EXCEPT !.backlog = Tail(@),
                   !.spawned = @ \cup {[to |-> "control",
                                         m |-> SendMsg(Head(s.backlog))]}]

\* Server::poll_handler that parks the task on a closed, drained receiver.
poll_handler_ParksWhenClosed(s) ==
    IF s.hq # <<>>
    THEN [res |-> "Some", item |-> Head(s.hq), s |-> [s EXCEPT !.hq = Tail(@)]]
    ELSE [res |-> "NotReady", item |-> 0,
          s |-> [s EXCEPT !.hTask = TRUE, !.hUnparked = FALSE]]

\* Server::poll_handler: one rx.poll() of the handler receiver, passed on:
\* the next buffered connection, the end of the stream once the receiver is
\* closed and drained, or NotReady with the task parked.
poll_handler(s) ==
    IF s.hq # <<>>
    THEN [res |-> "Some", item |-> Head(s.hq), s |-> [s EXCEPT !.hq = Tail(@)]]
    ELSE IF ~ s.hOpen
    THEN [res |-> "None", item |-> 0, s |-> s]
    ELSE [res |-> "NotReady", item |-> 0,
          s |-> [s EXCEPT !.hTask = TRUE, !.hUnparked = FALSE]]

\* The senders of the control channel that are alive: the one the Server
\* holds in its control pair, the one each spawned send owns and the clone
\* each session was given.  The channel closes when there is none.
ControlSenders(s) ==
    1 + Cardinality({f \in s.spawned : f.to = "control"}) + Cardinality(s.live)

\* Stream::poll of Server: poll_msg, then, as it returned NotReady, the
\* listener, then, as that returned NotReady, the handler.
ServerPoll(s) ==
    [poll_handler(poll_listener(poll_msg(s))) EXCEPT
        !.s.undrained = @ \/ Len(s.ctl) > 1,
        !.s.hdlBusy = @ \/ (s.backlog # <<>>
                             /\ poll_handler(poll_listener(poll_msg(s))).res = "Some")]

RECURSIVE ForEach(_)

\* server.for_each(..): polls the stream until it is not ready or ends; for
\* every item the closure spawns the task of the connection.
ForEach(s) ==
    LET r == ServerPoll(s)
    IN  CASE r.res = "Some" ->
                ForEach([r.s EXCEPT !.yielded = Append(@, r.item),
                                    !.live = @ \cup {r.item},
                                    !.late = IF r.s.processed
                                             THEN @ \cup {r.item} ELSE @])
          [] r.res = "None" -> [r.s EXCEPT !.ended = TRUE]
          [] r.res = "NotReady" -> r.s

\* server.select2(shutdown) polled by core.run: the stream side first; when
\* it has not ended, the shutdown side, which forwards a Shutdown received
\* from outside (the control receiver of serve, or Ctrl-C) to the server's
\* control channel and resolves.  core.run returns when either side resolves.
Select2(s) ==
    IF ForEach(s).ended THEN [ForEach(s) EXCEPT !.returned = TRUE]
    ELSE IF s.ext # ""
    THEN [CtlSend(ForEach(s), ShutdownMsg(0)) EXCEPT !.returned = TRUE]
    ELSE ForEach(s)

ServerInit ==
    /\ state = "Start"
    /\ keyfile = {}
    /\ control = 0
    /\ panicked = FALSE
    /\ last = NoCall
    /\ ConnIdle
    /\ CodecIdle
    /\ PureIdle
    /\ LockIdle
    /\ srv = NewServer
    /\ SendIdle

\* A client connects: the connection waits in the listener's queue, and the
\* task is notified if it is registered with the listener.
Connect ==
    /\ ~ srv.returned
    /\ srv.next <= MaxConns
    /\ srv' = [srv EXCEPT !.backlog = Append(@, srv.next),
                          !.next = @ + 1,
                          !.lsnTask = FALSE,
                          !.notified = @ \/ srv.lsnTask]
    /\ UNCHANGED <<sessionVars, connVars, codecVars, pureVars, lockVars, sendVars>>

\* The event loop polls the main task, which has been notified.
MainPoll ==
    /\ ~ srv.returned
    /\ srv.notified
    /\ \E r \in {Select2([srv EXCEPT !.notified = FALSE])} : srv' = r
    /\ UNCHANGED <<sessionVars, connVars, codecVars, pureVars, lockVars, sendVars>>

\* The event loop runs a spawned send to its end.
RunSpawned(f) ==
    /\ ~ srv.returned
    /\ f \in srv.spawned
    /\ \E r \in {[srv EXCEPT !.spawned = @ \ {f}]} :
          srv' = IF f.to = "control" THEN CtlSend(r, f.m)
                 ELSE HandlerSend(r, f.m.c)
    /\ UNCHANGED <<sessionVars, connVars, codecVars, pureVars, lockVars, sendVars>>

\* The session of a connection calls shutdown(): RpcState::shutdown hands
\* the Shutdown to sendmsg, and the session reads no further message.
SessionShutdown(c) ==
    /\ ~ srv.returned
    /\ c \in srv.live
    /\ srv' = [srv EXCEPT !.live = @ \ {c},
                          !.spawned = @ \cup {[to |-> "control",
                                                m |-> ShutdownMsg(c)]}]
    /\ UNCHANGED <<sessionVars, connVars, codecVars, pureVars, lockVars, sendVars>>

\* A Shutdown arrives from outside, on the control receiver given to serve
\* or as Ctrl-C; the main task is parked on both.
ExternalShutdown(from) ==
    /\ ~ srv.returned
    /\ srv.ext = ""
    /\ srv' = [srv EXCEPT !.ext = from, !.notified = TRUE]
    /\ UNCHANGED <<sessionVars, connVars, codecVars, pureVars, lockVars, sendVars>>

ServerNext ==
    \/ Connect
    \/ MainPoll
    \/ (\E f \in srv.spawned : RunSpawned(f))
    \/ (\E c \in 1..MaxConns : SessionShutdown(c))
    \/ (\E from \in {"control", "ctrl_c"} : ExternalShutdown(from))

ServerSpec == ServerInit /\ [][ServerNext]_vars

\* The event loop polls every notified task and runs every spawned future
\* for as long as core.run has not returned.
FairServerSpec ==
    /\ ServerSpec
    /\ WF_vars(MainPoll)
    /\ WF_vars(\E f \in srv.spawned : RunSpawned(f))

\* ------------------------------------------------------------------------
\* Specification SendSpec: send_message(writer, msg_stream) on a stream of
\* its own, polled by its task; the stream and the sink answer each poll as
\* they please.
\* ------------------------------------------------------------------------

\* The streams send_message is given: every sequence of up to MaxFrames
\* values.
Streams ==
    UNION {[1..k -> {Bin(b) : b \in Blobs}] : k \in 0..MaxFrames}

SendInit ==
    /\ state = "Start"
    /\ keyfile = {}
    /\ control = 0
    /\ panicked = FALSE
    /\ last = NoCall
    /\ ConnIdle
    /\ CodecIdle
    /\ PureIdle
    /\ LockIdle
    /\ ServerIdle
    /\ ms \in {NewStream(values) : values \in Streams}

\* SendMessage::poll while the future has not completed.  In Start the
\* stream is polled: it is not ready, yields its next value, which goes to
\* start_send, or has ended, which resolves the future.  In Full the stored
\* value goes to start_send again; in Waiting poll_complete is called.
SendPoll ==
    /\ ~ taskDone
    /\ ~ panicked
    /\ \E sink \in SinkOutcomes :
          CASE sendState.st = "Start" ->
                  \/ /\ UNCHANGED <<sendState, written, taskDone>>
                     /\ ms' = [ms EXCEPT !.ret = "NotReady"]
                  \/ /\ ms.rest # <<>>
                     /\ StartSend(Head(ms.rest), sink)
                     /\ UNCHANGED taskDone
                     /\ ms' = [ms EXCEPT !.rest = Tail(@),
                                         !.pulled = Append(@, Head(ms.rest)),
                                         !.ret = "NotReady",
                                         !.flushed = IF sink = "NotReady" THEN @
                                                     ELSE sink = "ReadyFlushed"]
                  \/ /\ ms.rest = <<>>
                     /\ TaskEnds
                     /\ ms' = [ms EXCEPT !.ret = "Ready"]
            [] sendState.st = "Full" ->
                  /\ StartSend(sendState.msg, sink)
                  /\ UNCHANGED taskDone
                  /\ ms' = [ms EXCEPT !.ret = "NotReady",
                                      !.flushed = IF sink = "NotReady" THEN @
                                                  ELSE sink = "ReadyFlushed",
                                      !.retried = @ \/ sink # "NotReady"]
            [] sendState.st = "Waiting" ->
                  /\ PollComplete(sink)
                  /\ UNCHANGED taskDone
                  /\ ms' = [ms EXCEPT !.ret = "NotReady",
                                      !.flushed = sink = "ReadyFlushed"]
    /\ UNCHANGED <<wire, sent, closed>>
    /\ UNCHANGED <<sessionVars, codecVars, pureVars, lockVars, serverVars>>

\* The stream or the sink fails during a poll: the `?` returns the error
\* with the state as mem::replace left it.
SendFails ==
    /\ ~ taskDone
    /\ ~ panicked
    /\ TaskEnds
    /\ ms' = [ms EXCEPT !.ret = "Err"]
    /\ UNCHANGED <<wire, sent, closed>>
    /\ UNCHANGED <<sessionVars, codecVars, pureVars, lockVars, serverVars>>

\* SendMessage::poll on the completed future: the Empty arm panics.
SendPollCompleted ==
    /\ ~ panicked
    /\ sendState.st = "Empty"
    /\ panicked' = TRUE
    /\ UNCHANGED <<state, keyfile, control, last>>
    /\ UNCHANGED <<connVars, codecVars, pureVars, lockVars, serverVars, sendVars>>

SendNext == SendPoll \/ SendFails \/ SendPollCompleted

SendSpec == SendInit /\ [][SendNext]_vars

\* ------------------------------------------------------------------------
\* Vocabulary of the properties
\* ------------------------------------------------------------------------

Processing == {"ProcessBootMessage", "ProcessAuthMessage"}

\* A call of process_message has just been made.
Called == last.pre # ""

\* m is a Notification carrying code c: [2, c, args] with args an array.
IsNotice(m, c) ==
    /\ m.t = "array"
    /\ Len(m.v) = 3
    /\ m.v[1] = U(2)
    /\ m.v[2] = U(c)
    /\ m.v[3].t = "array"

\* The method codes of a session kind and the number of arguments of each.
MethodArgs(session) ==
    IF session = "ProcessBootMessage" THEN (0 :> 1) @@ (1 :> 1)
    ELSE (0 :> 1) @@ (1 :> 2) @@ (2 :> 2) @@ (3 :> 2) @@ (4 :> 3) @@ (5 :> 1)
         @@ (6 :> 1)

\* m is a valid typed Request of the session: [0, id:u32, method, args].
IsTypedRequest(session, m) ==
    /\ m.t = "array"
    /\ Len(m.v) = 4
    /\ m.v[1] = U(0)
    /\ m.v[2] \in MsgIds
    /\ \E c \in DOMAIN MethodArgs(session) : m.v[3] = U(c)
    /\ m.v[4].t = "array"

\* The arguments of a typed Request pass the precheck.
ArgsPass(session, m) ==
    /\ Len(m.v[4].v) = MethodArgs(session)[m.v[3].lo]
    /\ \A i \in 1..Len(m.v[4].v) : m.v[4].v[i].t = "bin"

\* v is a Response message carrying msg_id id.
IsResponseTo(v, id) ==
    /\ v.t = "array"
    /\ Len(v.v) = 4
    /\ v.v[1] = U(1)
    /\ v.v[2] = id

\* The terminal state of a session kind.
EndOf(session) == IF session = "ProcessBootMessage" THEN "BootEnd" ELSE "AuthEnd"

\* The session kind a start notification opens.
SessionOf(f) == IF IsNotice(f, 0) THEN "ProcessBootMessage" ELSE "ProcessAuthMessage"

\* s is a valid session start followed by well-formed Requests only.
RequestSession(s) ==
    /\ Len(s) >= 1
    /\ (IsNotice(s[1], 0) \/ IsNotice(s[1], 1))
    /\ \A i \in 2..Len(s) :
          /\ IsTypedRequest(SessionOf(s[1]), s[i])
          /\ ArgsPass(SessionOf(s[1]), s[i])

\* Nothing more will be written: the task is over, or it has served every
\* frame and holds no value back.
Quiescent == taskDone \/ (wire = <<>> /\ sendState.st = "Start")

\* p is a proper prefix of s.
IsProperPrefix(p, s) == Len(p) < Len(s) /\ p = SubSeq(s, 1, Len(p))

\* ------------------------------------------------------------------------
\* Properties of one connection (specification ConnSpec)
\* ------------------------------------------------------------------------

\* C1: on one connection, after a valid session start, every well-formed
\* Request sent before Done is answered with exactly one Response: once the
\* connection is quiescent, the Responses written for each msg_id are as many
\* as the Requests sent with it.
C1_EveryRequestAnswered ==
    (RequestSession(sent) /\ Quiescent) =>
        \A id \in MsgIds :
            Cardinality({j \in 1..Len(written) : IsResponseTo(written[j], id)})
              = Cardinality({i \in 2..Len(sent) : sent[i].v[2] = id})

\* ------------------------------------------------------------------------
\* Properties of the decoder (specification CodecSpec)
\* ------------------------------------------------------------------------

\* C3: for every proper prefix p of encode(v), decode on a buffer holding
\* exactly p returns Ok(None) and leaves the buffer holding exactly p.
C3_IncompleteReadKeepsBuffer ==
    (dlast.res # "" /\ IsProperPrefix(dlast.pre, encode(cvalue))) =>
        /\ dlast.res = "OkNone"
        /\ dlast.post = dlast.pre

\* ------------------------------------------------------------------------
\* Properties of the session state machine (specification Spec)
\* ------------------------------------------------------------------------

\* C4: in Start, a Notification with code Boot (0) moves the session to
\* ProcessBootMessage and one with code Auth (1) to ProcessAuthMessage,
\* whatever its argument array holds; no response is emitted and no Shutdown
\* is pushed.
C4_SessionStart ==
    \A c \in {0, 1} :
        (Called /\ last.pre = "Start" /\ IsNotice(last.msg, c)) =>
            /\ state = (IF c = 0 THEN "ProcessBootMessage" ELSE "ProcessAuthMessage")
            /\ last.ret = None
            /\ ~ last.sd
            /\ control = 0
            /\ ~ panicked

C4_Witness ==
    /\ last.pre = "Start"
    /\ last.msg = Arr(<<U(2), U(1), Arr(<<Bin(<<1>>)>>)>>)
    /\ state = "ProcessAuthMessage"
    /\ last.ret = None

\* C5: in ProcessBoot / ProcessAuth a Request whose arguments pass the
\* precheck leaves the session in the same state and emits exactly one
\* Response carrying the msg_id of the Request.
C5_RequestAnswered ==
    (Called /\ last.pre \in Processing /\ IsTypedRequest(last.pre, last.msg)
            /\ ArgsPass(last.pre, last.msg)) =>
        /\ state = last.pre
        /\ IsResponseTo(last.ret, last.msg.v[2])

C7_StartProtocolError ==
    (Called /\ last.pre = "Start"
            /\ ~ IsNotice(last.msg, 0) /\ ~ IsNotice(last.msg, 1)) =>
        /\ last.ret = None
        /\ last.kind = "Err"
        /\ state \notin Processing
        /\ last.sd
        /\ control = 1

C7_Witness ==
    /\ last.pre = "Start"
    /\ last.msg \in Requests
    /\ last.kind = "Err"
    /\ control = 1

\* C8: in ProcessBoot / ProcessAuth a Response message (UnexpectedMessage) or
\* a Notification whose code is not Done (InvalidNotification) is a protocol
\* error: no response, the session leaves ProcessBoot / ProcessAuth, and
\* Shutdown is pushed.
C8_ProcessingProtocolError ==
    (Called /\ last.pre \in Processing) =>
        /\ (last.msg.v[1] = U(1)) =>
              (/\ last.err = "UnexpectedMessage"
               /\ last.ret = None
               /\ state \notin Processing
               /\ last.sd
               /\ control = 1)
        /\ (\E c \in 0..255 : c # 2 /\ IsNotice(last.msg, c)) =>
              (/\ last.err = "InvalidNotification"
               /\ last.ret = None
               /\ state \notin Processing
               /\ last.sd
               /\ control = 1)

C8_Witness ==
    /\ last.pre = "ProcessBootMessage"
    /\ IsNotice(last.msg, 1)
    /\ last.err = "InvalidNotification"
    /\ control = 1

\* C9: a Request whose arguments fail the precheck (wrong count, or an
\* argument that is not binary) produces no Response, leaves the store
\* unchanged, and pushes Shutdown.
C9_PrecheckFailure ==
    (Called /\ last.pre \in Processing /\ IsTypedRequest(last.pre, last.msg)
            /\ ~ ArgsPass(last.pre, last.msg)) =>
        /\ last.ret = None
        /\ last.err \in {"InvalidRequestArgs", "InvalidRequest"}
        /\ keyfile = last.store
        /\ last.sd
        /\ control = 1

C9_Witness ==
    /\ last.pre = "ProcessAuthMessage"
    /\ last.msg = Arr(<<U(0), U(7), U(6), Arr(<<Nil>>)>>)
    /\ last.err = "InvalidRequest"
    /\ keyfile = last.store
    /\ control = 1

\* C10: in ProcessBoot / ProcessAuth a base Message of type Request that is
\* not a valid typed Request of the session yields a protocol error: no
\* Response is emitted and Shutdown is pushed.
C10_InvalidTypedRequest ==
    (Called /\ last.pre \in Processing /\ last.msg.v[1] = U(0)
            /\ ~ IsTypedRequest(last.pre, last.msg)) =>
        /\ last.kind = "Err"
        /\ last.ret = None
        /\ last.sd

\* ------------------------------------------------------------------------
\* Properties of the pipeline on a decoder error (specification ConnSpec)
\* ------------------------------------------------------------------------

\* The frames the reader has yielded so far.
Consumed == SubSeq(sent, 1, Len(sent) - Len(wire))

\* The decoder has returned an error on the connection.
DecodeFailed == \E i \in 1..Len(Consumed) : Consumed[i] = BadBytes

\* C11: once the decoder has returned an error other than 'incomplete' on a
\* connection, the connection sends no further Response (its task is over)
\* and Shutdown has been pushed onto the server control channel.
C11_DecodeErrorShutsDown ==
    DecodeFailed =>
        /\ taskDone
        /\ control >= 1

\* ------------------------------------------------------------------------
\* Properties of the request handlers (specification Spec)
\* ------------------------------------------------------------------------

\* The method a typed Request of the session names.
MethodOf(session, m) ==
    IF session = "ProcessBootMessage" THEN BootMessage[m.v[3].lo]
    ELSE AuthMessage[m.v[3].lo]

\* The latest call served a well-formed Request for method in one of sessions.
Serving(sessions, method) ==
    /\ Called
    /\ last.pre \in sessions
    /\ IsTypedRequest(last.pre, last.msg)
    /\ ArgsPass(last.pre, last.msg)
    /\ MethodOf(last.pre, last.msg) = method

\* The i-th argument of the latest Request, as bytes.
Arg(i) == last.msg.v[4].v[i].bytes

\* The latest call returned the Response [1, msg_id, code, result] for its
\* Request and kept the session.
Answered(code, result) ==
    /\ last.ret = Arr(<<U(1), last.msg.v[2], U(code), result>>)
    /\ state = last.pre

C13_GetKeyFile ==
    (Serving(Processing, "GetKeyFile") /\ last.fault = "none") =>
        /\ Bound(last.store, Arg(1)) =>
              Answered(0, Bin(FileOf(last.store, Arg(1))))
        /\ (~ Bound(last.store, Arg(1))) => Answered(1, Bin(Arg(1)))
        /\ keyfile = last.store

C13_Witness ==
    /\ Serving({"ProcessAuthMessage"}, "GetKeyFile")
    /\ ~ Bound(last.store, Arg(1))
    /\ last.ret = Arr(<<U(1), last.msg.v[2], U(1), Bin(Arg(1))>>)
    /\ keyfile = last.store

\* C14: in an Auth session, a GetKeyFile(k) whose get fails with an engine
\* error (Other) is answered with the Response (DatabaseError, false)
\* carrying the msg_id of the request, and the session stays in ProcessAuth.
C14_AuthGetEngineError ==
    (Serving({"ProcessAuthMessage"}, "GetKeyFile") /\ last.fault = "get") =>
        Answered(3, Bool(FALSE))

GetNow(k) ==
    process_message(state, keyfile,
                    Arr(<<U(0), last.msg.v[2], U(0), Arr(<<Bin(k)>>)>>), "none").ret

C17_ChangeKey ==
    (Serving({"ProcessAuthMessage"}, "ChangeKey") /\ last.fault = "none"
            /\ Bound(last.store, Arg(1)) /\ ~ Bound(last.store, Arg(2))) =>
        /\ Answered(0, Bool(TRUE))
        /\ keyfile = {p \in last.store : p[1] # Arg(1)}
                       \cup {<<Arg(2), FileOf(last.store, Arg(1))>>}
        /\ ~ Bound(keyfile, Arg(1))

C17_Witness ==
    /\ Serving({"ProcessAuthMessage"}, "ChangeKey")
    /\ last.fault = "none"
    /\ last.store = {<<<<1>>, <<2>>>>}
    /\ keyfile = {<<<<2>>, <<2>>>>}
    /\ last.ret = Arr(<<U(1), last.msg.v[2], U(0), Bool(TRUE)>>)

C20_SetFailsAfterDelete ==
    \A method \in {"ChangeKey", "ReplaceKeyFile"} :
        (Serving({"ProcessAuthMessage"}, method) /\ last.fault = "set"
                /\ Bound(last.store, Arg(1)) /\ ~ Bound(last.store, Arg(2))) =>
            Answered(3, Bool(FALSE))

C20_Witness ==
    /\ Serving({"ProcessAuthMessage"}, "ReplaceKeyFile")
    /\ last.fault = "set"
    /\ Bound(last.store, Arg(1))
    /\ ~ Bound(last.store, Arg(2))
    /\ ~ Bound(keyfile, Arg(1))
    /\ last.ret = Arr(<<U(1), last.msg.v[2], U(3), Bool(FALSE)>>)

\* C21: ReplaceKeyFile(old, new, f) with old present, new absent and no
\* engine error ends with old absent and new bound to f, every other binding
\* unchanged, and is answered with (Nil, true); with old absent and new
\* absent it is answered with (KeyFileNotFound, bytes(old)) and the store is
\* unchanged.
C21_ReplaceKeyFile ==
    (Serving({"ProcessAuthMessage"}, "ReplaceKeyFile") /\ last.fault = "none"
            /\ ~ Bound(last.store, Arg(2))) =>
        /\ Bound(last.store, Arg(1)) =>
              /\ Answered(0, Bool(TRUE))
              /\ keyfile = {p \in last.store : p[1] # Arg(1)}
                             \cup {<<Arg(2), Arg(3)>>}
              /\ ~ Bound(keyfile, Arg(1))
        /\ (~ Bound(last.store, Arg(1))) =>
              /\ Answered(1, Bin(Arg(1)))
              /\ keyfile = last.store

C21_Witness ==
    /\ Serving({"ProcessAuthMessage"}, "ReplaceKeyFile")
    /\ last.fault = "none"
    /\ last.store = {<<<<1>>, <<1>>>>}
    /\ keyfile = {<<<<2>>, <<2>>>>}
    /\ last.ret = Arr(<<U(1), last.msg.v[2], U(0), Bool(TRUE)>>)

\* ------------------------------------------------------------------------
\* The concatenation law of the decoder (specification CodecSpec)
\* ------------------------------------------------------------------------

\* The first half of a byte string, as the test cuts it: length / 2 bytes.
Half(s) == SubSeq(s, 1, Len(s) \div 2)

\* C26: decode on a buffer holding encode(v1) followed by the first half of
\* encode(v2) returns Ok(Some(v1)) and leaves the buffer holding exactly that
\* half of encode(v2).
C26_CompleteThenIncomplete ==
    (dlast.res # "" /\ cnext # None
            /\ dlast.pre = encode(cvalue) \o Half(encode(cnext))) =>
        /\ dlast.res = "OkSome"
        /\ dlast.val = cvalue
        /\ dlast.post = Half(encode(cnext))

C26_Witness ==
    /\ cvalue = Arr(<<U(7), Bin(<<1>>)>>)
    /\ cnext = Bin(<<1, 2>>)
    /\ dlast.pre = <<146, 7, 196, 1, 1, 196, 2>>
    /\ dlast.res = "OkSome"
    /\ dlast.val = cvalue
    /\ buf = <<196, 2>>

\* ------------------------------------------------------------------------
\* Properties of the store lock (specification LockSpec)
\* ------------------------------------------------------------------------

\* The handler of c is between its first and its last store call.
InSequence(c) ==
    /\ conn[c].method \in {"ChangeKey", "ReplaceKeyFile"}
    /\ conn[c].pc \in {"exists", "get", "delete", "set"}

\* C22: a connection executing ChangeKey or ReplaceKeyFile holds the write
\* guard at every store call from the new-key check to the final set, and
\* while old is deleted and new not yet inserted no other connection holds a
\* guard or is at a store call: each is outside its handler or waits for the
\* lock.
C22_WriterHoldsAcrossSequence ==
    \A c \in Conns :
        /\ InSequence(c) => (lock.writer = c /\ lock.readers = {})
        /\ conn[c].mid =>
              \A d \in Conns \ {c} :
                  /\ conn[d].pc \in {"idle", "lock"}
                  /\ d \notin lock.readers

C22_Witness ==
    \E c \in Conns : \E d \in Conns \ {c} :
        /\ conn[c].method = "ChangeKey"
        /\ conn[c].pc = "set"
        /\ conn[c].mid
        /\ ~ Bound(lstore, conn[c].old)
        /\ ~ Bound(lstore, conn[c].new)
        /\ conn[d].pc = "lock"
        /\ conn[d].method = "GetKeyFile"
        /\ conn[d].old = conn[c].old

\* ------------------------------------------------------------------------
\* Properties of the server stream (specifications ServerSpec, FairServerSpec)
\* ------------------------------------------------------------------------

\* C23: once the server has processed a Shutdown control message the handler
\* channel is closed and no connection is delivered any more: no item of the
\* server stream is yielded after a Shutdown was processed.
C23_NoYieldAfterShutdown ==
    /\ srv.processed => ~ srv.hOpen
    /\ srv.late = {}

C31_EndsOnlyWhenControlCloses ==
    srv.ended => ControlSenders(srv) = 0

\* C31, amended: the control channel never closes while the Server lives,
\* since the Server holds a sender of it; the stream ends when, and only
\* when, a Shutdown has been processed, in the very poll that processes it:
\* Shutdown closes the handler receiver, the connections buffered in it are
\* yielded, and the drained receiver ends the stream.  No poll of the control
\* channel follows the end.
C31_EndsWithShutdown ==
    /\ ControlSenders(srv) >= 1
    /\ srv.ended <=> srv.processed
    /\ srv.ended => (~ srv.hOpen /\ srv.hq = <<>> /\ srv.returned)

C31_Witness ==
    /\ srv.ended
    /\ srv.processed
    /\ srv.ctl # <<>>
    /\ ControlSenders(srv) = 1
    /\ Len(srv.yielded) = 1

\* C32: on every wake the three sub-polls run in strict priority order: the
\* pending control messages are drained first, the listener is polled only
\* when the control channel had no pending message, and an item is taken
\* from the handler channel only when the listener had nothing to accept.
C32_StrictPriority ==
    /\ ~ srv.undrained
    /\ ~ srv.hdlBusy

\* A Shutdown has been sent: by a session, from outside, or it is on its way.
ShutdownSent ==
    \/ srv.pushed
    \/ srv.ext # ""
    \/ \E f \in srv.spawned : f.m.t = "Shutdown"

\* The listener has accepted connection c.
Accepted(c) == c < srv.next /\ \A i \in 1..Len(srv.backlog) : srv.backlog[i] # c

\* The number of times the stream has yielded connection c.
Yields(c) == Cardinality({i \in 1..Len(srv.yielded) : srv.yielded[i] = c})

\* C33: if no Shutdown is ever sent, every connection the listener has
\* accepted is eventually yielded by the server stream, and no connection is
\* ever yielded twice or before it was accepted.
C33_AcceptedIsYieldedOnce ==
    /\ [](\A c \in 1..MaxConns : Yields(c) <= 1 /\ (Yields(c) = 1 => Accepted(c)))
    /\ ([](~ ShutdownSent)) =>
            \A c \in 1..MaxConns : (Accepted(c) ~> (Yields(c) = 1))

C33_Witness ==
    /\ ~ ShutdownSent
    /\ srv.yielded = <<1, 2>>
    /\ srv.backlog = <<>>
    /\ srv.spawned = {}
    /\ ~ srv.notified

\* C34: a session pushes Shutdown only when it detects a protocol error; a
\* session that finishes with Done, reaching BootEnd or AuthEnd, pushes none.
C34_ShutdownOnlyOnError ==
    Called =>
        /\ last.sd => last.kind = "Err"
        /\ (last.pre \in Processing /\ IsNotice(last.msg, 2)) => ~ last.sd

\* C30: the Boot session never changes the store: after every call made in
\* a Boot session, whatever the message (a Request of either method, well
\* formed or not, a Notification, a Response, an unknown type) and whatever
\* the engine does, the store is the store the call found.
C30_BootNeverWrites ==
    (Called /\ last.pre = "ProcessBootMessage") => keyfile = last.store

C30_Witness ==
    /\ Serving({"ProcessBootMessage"}, "KeyExists")
    /\ last.fault = "none"
    /\ last.store # {}
    /\ ~ Bound(last.store, Arg(1))
    /\ Answered(0, Bool(FALSE))
    /\ keyfile = last.store

\* ------------------------------------------------------------------------
\* Properties of the conversions (specification PureSpec)
\* ------------------------------------------------------------------------

\* The conversion f has been called on the input.
Converted(f) == fin.f = f /\ fout # NoOutput

\* v is an array of 3 or 4 elements whose first element is a u8.
HeadedByU8(v) ==
    /\ v.t = "array"
    /\ Len(v.v) \in {3, 4}
    /\ v.v[1].t = "int"
    /\ v.v[1].hi = 0
    /\ v.v[1].lo <= 255

NumVariants(e) == Cardinality(DOMAIN CodeEnums[e])

\* The discriminants of the enum named e as its declaration gives them: in
\* order from 0, but for the two notice enums, whose only variant is Done = 2.
Discriminants(e) ==
    IF e \in {"BootNotice", "AuthNotice"} THEN {2} ELSE 0..(NumVariants(e) - 1)

Pending == IF sendState.st = "Full" THEN <<sendState.msg>> ELSE <<>>

\* C35: whatever backpressure the sink applies, as long as neither the sink
\* nor the stream has failed, the values the sink has accepted followed by
\* the value SendMessage holds in Full are exactly the values the stream has
\* yielded, in the stream's order: each value is accepted once, a rejected
\* value is kept and offered again, and nothing is pulled while one is held.
C35_AcceptedOnceInOrder ==
    (ms.ret # "Err") => ms.pulled = written \o Pending

C35_Witness ==
    /\ ms.retried
    /\ Len(written) = 3
    /\ written[1] # written[2]
    /\ written = ms.pulled

\* C36: whenever SendMessage::poll has returned NotReady the stored state is
\* Start, Full or Waiting; Empty is stored only after poll returned Ready or
\* an error, and the panic of the Empty arm happens only on a poll of the
\* completed future.
C36_EmptyOnlyWhenCompleted ==
    /\ (ms.ret = "NotReady") => sendState.st \in {"Start", "Full", "Waiting"}
    /\ (sendState.st = "Empty") => (taskDone /\ ms.ret \in {"Ready", "Err"})
    /\ (panicked /\ ms.ret # "") => (taskDone /\ ms.ret \in {"Ready", "Err"})

C36_Witness ==
    /\ ms.ret = "NotReady"
    /\ sendState.st = "Waiting"
    /\ ~ ms.flushed
    /\ written # <<>>

\* C37: SendMessage resolves Ready only from Start, when the stream has
\* ended and every value it yielded has been accepted and flushed by the
\* sink; it never resolves from Full or Waiting.
C37_ReadyOnlyWhenFlushed ==
    /\ [](ms.ret = "Ready" =>
            /\ ms.rest = <<>>
            /\ written = ms.pulled
            /\ ms.flushed
            /\ sendState.st = "Empty")
    /\ [][(ms'.ret = "Ready" /\ ms.ret # "Ready") => sendState.st = "Start"]_vars

C37_Witness ==
    /\ ms.ret = "Ready"
    /\ ms.retried
    /\ Len(written) = 2
    /\ ms.flushed

\* The number of arguments the handler of request m asks for in session st.
WantedArgs(st, m) ==
    IF st = "ProcessBootMessage" THEN 1 ELSE AuthArgCount[as_u64(m.v[3]).lo]

\* C38: the precheck of a request compares the argument count first, so a
\* request with the wrong number of arguments fails with InvalidRequestArgs
\* even when one of them is not binary; with the right number, an argument
\* that is not binary fails it with InvalidRequest.
C38_CountBeforeTypes ==
    (Called /\ last.pre \in Processing /\ IsTypedRequest(last.pre, last.msg)) =>
        LET args == message_args(last.msg)
        IN  /\ (Len(args) # WantedArgs(last.pre, last.msg)) =>
                  last.err = "InvalidRequestArgs"
            /\ (/\ Len(args) = WantedArgs(last.pre, last.msg)
                /\ \E i \in 1..Len(args) : ~ is_bin(args[i])) =>
                  last.err = "InvalidRequest"

C38_Witness ==
    /\ Called
    /\ last.pre = "ProcessAuthMessage"
    /\ IsTypedRequest(last.pre, last.msg)
    /\ Len(message_args(last.msg)) = 3
    /\ WantedArgs(last.pre, last.msg) = 1
    /\ ~ is_bin(message_args(last.msg)[2])
    /\ last.err = "InvalidRequestArgs"

\* C39: in ProcessBoot / ProcessAuth a base Message whose type code is no
\* known MessageType (3..=255) is a protocol error: the step returns an
\* error, no response is emitted, and Shutdown is pushed.
C39_UnknownTypeIsProtocolError ==
    (Called /\ last.pre \in Processing /\ message_type(last.msg) = "Err") =>
        /\ last.kind = "Err"
        /\ last.ret = None
        /\ last.sd

\* The session states process_message must not be called in.
Terminal == {"Nil", "BootEnd", "AuthEnd"}

\* This step polls the responses stream of the connection and hands the
\* next frame, a base Message, to process_message.
Invoked ==
    /\ ~ taskDone
    /\ ~ panicked
    /\ sendState.st = "Start"
    /\ wire # <<>>
    /\ wire' = Tail(wire)
    /\ Head(wire) # BadBytes
    /\ MessageFrom(Head(wire)) = "Ok"

\* C40: on a connection served by serve, process_message is never invoked
\* while the stored state is Nil, BootEnd or AuthEnd: once the state is one
\* of these the connection's task is over, so no later frame reaches the
\* state machine, whatever frames the client sends.
C40_NoCallInTerminalState ==
    /\ [](state \in Terminal => (taskDone \/ panicked))
    /\ [][Invoked => state \notin Terminal]_vars

C40_Witness ==
    /\ state = "Nil"
    /\ control = 1
    /\ taskDone
    /\ ~ panicked
    /\ wire # <<>>
    /\ MessageFrom(Head(wire)) = "Ok"

====
